---- MODULE Spec2Model ----
(***************************************************************************)
(* The renderer of markdown2pdf (src/src/lib/pdf.rs): Pdf::process_tokens  *)
(* walks the token sequence, buffers inline tokens, and pushes Break and   *)
(* Paragraph elements to the Document.  Around it: font loading            *)
(* (fonts.rs), the style configuration (config.rs) and parse_into_file     *)
(* (lib.rs).  Each has its own specification over the shared variables:    *)
(* Spec (renderer), FontSpec, ConfigSpec and FileSpec.                     *)
(*                                                                         *)
(* Conventions.                                                            *)
(*   - A Rust String is a sequence of one-character strings, so that       *)
(*     contains('\n'), split('\n'), repeat and format! are computed.       *)
(*   - Option<T>: None is <<>>, Some(v) is <<v>>.                          *)
(*   - f32 spacings are counted in tenths of a point (0.8 is 8).           *)
(*   - Every token carries "id", its position in the token tree (the path  *)
(*     of indices from the top-level sequence).  Every run and Break       *)
(*     carries "src", the id of the token it was pushed for, and every     *)
(*     Paragraph carries "by" (the function that pushed it) and "of" (the  *)
(*     ids of the tokens handed to that call).  id, src, by and of are     *)
(*     history fields: the renderer never reads them.                      *)
(*   - Result<T, E>: Ok(v) is [ok |-> TRUE, v |-> v], Err(e) is            *)
(*     [ok |-> FALSE, err |-> e].                                          *)
(*   - files is the font files of the system, disk the directories and     *)
(*     files an output path can name, heap the buffers behind Arc          *)
(*     pointers (an Arc is an index into heap), call the library call      *)
(*     made and result what it returned.                                   *)
(***************************************************************************)
EXTENDS Integers, Sequences, FiniteSets, TLC

VARIABLES input, style, pos, current_tokens, doc, pc, files, disk, heap, call, result

vars == <<input, style, pos, current_tokens, doc, pc, files, disk, heap, call, result>>

\* The variables of the library calls outside the renderer.
libVars == <<files, disk, heap, call, result>>

\* The variables of the walk of process_tokens.
walkVars == <<input, style, pos, current_tokens, doc, pc>>

None == <<>>

Some(v) == <<v>>

(***************************************************************************)
(* Token, the tagged variant consumed by the renderer.                     *)
(***************************************************************************)
Heading(content, level) == [type |-> "Heading", content |-> content, level |-> level]

Emphasis(level, content) == [type |-> "Emphasis", level |-> level, content |-> content]

StrongEmphasis(content) == [type |-> "StrongEmphasis", content |-> content]

Code(lang, text) == [type |-> "Code", lang |-> lang, text |-> text]

BlockQuote(text) == [type |-> "BlockQuote", text |-> text]

ListItem(content, ordered, number) ==
    [type |-> "ListItem", content |-> content, ordered |-> ordered, number |-> number]

Link(text, url) == [type |-> "Link", text |-> text, url |-> url]

Image(alt, url) == [type |-> "Image", text |-> alt, url |-> url]

Table(headers, aligns, rows) ==
    [type |-> "Table", headers |-> headers, aligns |-> aligns, rows |-> rows]

Text(text) == [type |-> "Text", text |-> text]

HtmlComment(text) == [type |-> "HtmlComment", text |-> text]

Newline == [type |-> "Newline"]

HorizontalRule == [type |-> "HorizontalRule"]

Unknown(text) == [type |-> "Unknown", text |-> text]

\* The tokens of a sequence, each tagged with its position in the tree.
\* (Table cells are not walked by the renderer and stay untagged.)
RECURSIVE WithIds(_, _)
WithIds(tokens, prefix) ==
    [i \in 1..Len(tokens) |->
        LET t == tokens[i]
            p == Append(prefix, i)
            c == IF "content" \in DOMAIN t
                 THEN [t EXCEPT !.content = WithIds(@, p)]
                 ELSE t
        IN  c @@ [id |-> p]]

Ids(tokens) == [i \in 1..Len(tokens) |-> tokens[i].id]

(***************************************************************************)
(* StyleMatch and BasicTextStyle (only the fields the renderer reads).     *)
(***************************************************************************)
BasicTextStyle(size, text_color, before_spacing, after_spacing, is_bold, is_italic) ==
    [size |-> size, text_color |-> text_color,
     before_spacing |-> IF before_spacing = None THEN 0 ELSE before_spacing[1],
     after_spacing |-> IF after_spacing = None THEN 0 ELSE after_spacing[1],
     bold |-> is_bold, italic |-> is_italic]

StyleMatchDefault ==
    [heading_1 |-> BasicTextStyle(14, Some(<<0, 0, 0>>), Some(8), Some(5), TRUE, FALSE),
     heading_2 |-> BasicTextStyle(12, Some(<<0, 0, 0>>), Some(8), Some(5), TRUE, FALSE),
     heading_3 |-> BasicTextStyle(10, Some(<<0, 0, 0>>), Some(8), Some(5), TRUE, FALSE),
     code |-> BasicTextStyle(8, Some(<<128, 128, 128>>), Some(4), Some(4), FALSE, FALSE),
     block_quote |-> BasicTextStyle(8, Some(<<128, 128, 128>>), None, None, FALSE, TRUE),
     list_item |-> BasicTextStyle(8, Some(<<0, 0, 0>>), None, Some(5), FALSE, FALSE),
     link |-> BasicTextStyle(8, Some(<<128, 128, 128>>), None, None, FALSE, FALSE),
     text |-> BasicTextStyle(8, Some(<<0, 0, 0>>), None, None, FALSE, FALSE),
     horizontal_rule |-> BasicTextStyle(8, Some(<<0, 0, 0>>), None, Some(5), FALSE, FALSE)]

\* A StyleMatch as a configuration file can set it: every element differs
\* from the default in size, spacing, colour or decoration.
StyleMatchCustom ==
    [heading_1 |-> BasicTextStyle(20, None, Some(10), Some(6), FALSE, TRUE),
     heading_2 |-> BasicTextStyle(16, Some(<<0, 0, 255>>), Some(9), Some(4), TRUE, TRUE),
     heading_3 |-> BasicTextStyle(11, Some(<<0, 0, 0>>), Some(7), Some(3), FALSE, FALSE),
     code |-> BasicTextStyle(9, None, Some(2), Some(3), FALSE, FALSE),
     block_quote |-> BasicTextStyle(7, Some(<<128, 128, 128>>), Some(1), Some(1), FALSE, TRUE),
     list_item |-> BasicTextStyle(7, Some(<<0, 0, 0>>), Some(1), Some(2), FALSE, FALSE),
     link |-> BasicTextStyle(8, None, None, None, FALSE, FALSE),
     text |-> BasicTextStyle(13, Some(<<0, 0, 0>>), Some(1), Some(6), FALSE, FALSE),
     horizontal_rule |-> BasicTextStyle(8, Some(<<0, 0, 0>>), None, Some(12), FALSE, FALSE)]

(***************************************************************************)
(* genpdfi::style::Style as the renderer builds it, and the elements it    *)
(* pushes.                                                                 *)
(***************************************************************************)
StyleNew == [font_size |-> None, bold |-> FALSE, italic |-> FALSE, color |-> None]

with_font_size(st, size) == [st EXCEPT !.font_size = Some(size)]

bold(st) == [st EXCEPT !.bold = TRUE]

italic(st) == [st EXCEPT !.italic = TRUE]

with_color(st, color) == [st EXCEPT !.color = Some(color)]

push_styled(text, st, src) == [text |-> text, style |-> st, link |-> None, src |-> src]

push_link(text, url, st, src) == [text |-> text, style |-> st, link |-> Some(url), src |-> src]

Break(size, src) == [el |-> "Break", size |-> size, src |-> src]

Paragraph(by, of, runs) == [el |-> "Paragraph", by |-> by, of |-> of, runs |-> runs]

(***************************************************************************)
(* String helpers.                                                         *)
(***************************************************************************)
contains(s, c) == \E i \in 1..Len(s) : s[i] = c

RECURSIVE split(_, _)
split(s, c) ==
    IF contains(s, c)
    THEN LET k == CHOOSE i \in 1..Len(s) : s[i] = c /\ \A j \in 1..(i - 1) : s[j] # c
         IN  <<SubSeq(s, 1, k - 1)>> \o split(SubSeq(s, k + 1, Len(s)), c)
    ELSE <<s>>

RECURSIVE repeat(_, _)
repeat(s, n) == IF n = 0 THEN <<>> ELSE s \o repeat(s, n - 1)

\* The sequences of a sequence, one after the other (a nested loop).
RECURSIVE Concat(_)
Concat(ss) == IF ss = <<>> THEN <<>> ELSE Head(ss) \o Concat(Tail(ss))

RECURSIVE to_string(_)
to_string(n) ==
    LET digit(d) == <<"0", "1", "2", "3", "4", "5", "6", "7", "8", "9">>[d + 1]
    IN  IF n < 10 THEN <<digit(n)>> ELSE to_string(n \div 10) \o <<digit(n % 10)>>

(***************************************************************************)
(* Inline rendering.                                                       *)
(***************************************************************************)
\* Mutant: level 1 sets italic and drops the bold it inherited.
EmphasisStyle_resets(st, level) ==
    CASE level = 1 -> [st EXCEPT !.italic = TRUE, !.bold = FALSE]
      [] level = 2 -> bold(st)
      [] OTHER -> italic(bold(st))

EmphasisStyle(st, level) ==
    CASE level = 1 -> italic(st)
      [] level = 2 -> bold(st)
      [] OTHER -> italic(bold(st))

\* Mutant: StrongEmphasis also sets italic.
StrongEmphasisStyle_italic(st) == italic(bold(st))

StrongEmphasisStyle(st) == bold(st)

link_style(st) ==
    IF style.link.text_color # None THEN with_color(st, style.link.text_color[1]) ELSE st

code_style(st) ==
    IF style.code.text_color # None THEN with_color(st, style.code.text_color[1]) ELSE st

RECURSIVE render_inline_content_with_style(_, _)
render_inline_content_with_style(tokens, st) ==
    IF tokens = <<>>
    THEN <<>>
    ELSE LET token == Head(tokens)
             runs ==
                 CASE token.type = "Text" ->
                        <<push_styled(token.text, st, token.id)>>
                   [] token.type = "Emphasis" ->
                        render_inline_content_with_style(
                            token.content, EmphasisStyle(st, token.level))
                   [] token.type = "StrongEmphasis" ->
                        render_inline_content_with_style(
                            token.content, StrongEmphasisStyle(st))
                   [] token.type = "Link" ->
                        <<push_link(token.text, token.url, link_style(st), token.id)>>
                   [] token.type = "Code" ->
                        <<push_styled(token.text, code_style(st), token.id)>>
                   [] OTHER -> <<>>
         IN  runs \o render_inline_content_with_style(Tail(tokens), st)

render_inline_content(tokens) ==
    render_inline_content_with_style(tokens, with_font_size(StyleNew, style.text.size))

(***************************************************************************)
(* Block rendering: each operator is the sequence of elements the function *)
(* pushes to the Document.                                                 *)
(***************************************************************************)
\* Mutant: an empty buffer is flushed as an empty paragraph's spacing.
flush_paragraph_of_nothing(tokens) ==
    IF tokens = <<>>
    THEN <<Break(style.text.before_spacing, <<>>), Break(style.text.after_spacing, <<>>)>>
    ELSE <<Break(style.text.before_spacing, tokens[1].id),
           Paragraph("flush_paragraph", Ids(tokens), render_inline_content(tokens)),
           Break(style.text.after_spacing, tokens[Len(tokens)].id)>>

flush_paragraph(tokens) ==
    IF tokens = <<>>
    THEN <<>>
    ELSE <<Break(style.text.before_spacing, tokens[1].id),
           Paragraph("flush_paragraph", Ids(tokens), render_inline_content(tokens)),
           Break(style.text.after_spacing, tokens[Len(tokens)].id)>>

\* Mutant: level 0 is clamped up to heading_1.
heading_style_clamps(level) ==
    CASE level <= 1 -> style.heading_1
      [] level = 2 -> style.heading_2
      [] OTHER -> style.heading_3

heading_style(level) ==
    CASE level = 1 -> style.heading_1
      [] level = 2 -> style.heading_2
      [] OTHER -> style.heading_3

heading_run_style(hs) ==
    LET s0 == with_font_size(StyleNew, hs.size)
        s1 == IF hs.bold THEN bold(s0) ELSE s0
        s2 == IF hs.italic THEN italic(s1) ELSE s1
    IN  IF hs.text_color # None THEN with_color(s2, hs.text_color[1]) ELSE s2

render_heading(content, level, id) ==
    LET hs == heading_style(level)
    IN  <<Break(hs.before_spacing, id),
          Paragraph("render_heading", <<id>>,
                    render_inline_content_with_style(content, heading_run_style(hs))),
          Break(hs.after_spacing, id)>>

code_block_indent == <<" ", " ", " ", " ">>

\* Mutant: the lines are those of str::lines, which has no last empty line.
render_code_block_by_lines(lang, content, id) ==
    LET st == code_style(with_font_size(StyleNew, style.code.size))
        pieces == split(content, "\n")
        lines == IF pieces[Len(pieces)] = <<>> THEN SubSeq(pieces, 1, Len(pieces) - 1)
                 ELSE pieces
    IN  <<Break(style.code.before_spacing, id)>>
        \o [i \in 1..Len(lines) |->
              Paragraph("render_code_block", <<id>>,
                        <<push_styled(code_block_indent \o lines[i], st, id)>>)]
        \o <<Break(style.code.after_spacing, id)>>

render_code_block(lang, content, id) ==
    LET st == code_style(with_font_size(StyleNew, style.code.size))
        lines == split(content, "\n")
    IN  <<Break(style.code.before_spacing, id)>>
        \o [i \in 1..Len(lines) |->
              Paragraph("render_code_block", <<id>>,
                        <<push_styled(code_block_indent \o lines[i], st, id)>>)]
        \o <<Break(style.code.after_spacing, id)>>

\* Mutant: 2 spaces per level.
list_indent_two(nesting_level) == repeat(<<" ", " ">>, nesting_level)

list_indent(nesting_level) == repeat(<<" ", " ", " ", " ">>, nesting_level)

list_marker(ordered, number, nesting_level, st, id) ==
    IF ~ordered
    THEN <<push_styled(list_indent(nesting_level) \o <<"-", " ">>, st, id)>>
    ELSE IF number # None
         THEN <<push_styled(list_indent(nesting_level) \o to_string(number[1]) \o <<".", " ">>,
                            st, id)>>
         ELSE <<>>

RECURSIVE render_list_item(_, _, _, _, _)
render_list_item(content, ordered, number, nesting_level, id) ==
    LET st == with_font_size(StyleNew, style.list_item.size)
        inline_content == SelectSeq(content, LAMBDA token : token.type # "ListItem")
        RECURSIVE nested(_)
        nested(tokens) ==
            IF tokens = <<>>
            THEN <<>>
            ELSE LET token == Head(tokens)
                 IN  (IF token.type = "ListItem"
                      THEN render_list_item(token.content, token.ordered, token.number,
                                            nesting_level + 1, token.id)
                      ELSE <<>>)
                     \o nested(Tail(tokens))
    IN  <<Break(style.list_item.before_spacing, id),
          Paragraph("render_list_item", <<id>>,
                    list_marker(ordered, number, nesting_level, st, id)
                    \o render_inline_content_with_style(inline_content, st)),
          Break(style.list_item.after_spacing, id)>>
        \o nested(content)

(***************************************************************************)
(* Pdf::process_tokens: the arm of the match a token takes, and for each   *)
(* arm the elements pushed and the buffer it leaves.                       *)
(***************************************************************************)
Arm(token) ==
    CASE token.type = "Heading" -> "Heading"
      [] token.type = "ListItem" -> "ListItem"
      [] token.type = "Code" /\ contains(token.text, "\n") -> "Code"
      [] token.type = "HorizontalRule" -> "HorizontalRule"
      [] token.type = "Newline" -> "Newline"
      [] OTHER -> "_"

heading_arm(buffer, token) ==
    [pushed |-> flush_paragraph(buffer)
                \o render_heading(token.content, token.level, token.id),
     buffer |-> <<>>]

\* Mutant: the ListItem arm flushes but does not clear the buffer.
list_item_arm_keeps_buffer(buffer, token) ==
    [pushed |-> flush_paragraph(buffer)
                \o render_list_item(token.content, token.ordered, token.number, 0, token.id),
     buffer |-> buffer]

list_item_arm(buffer, token) ==
    [pushed |-> flush_paragraph(buffer)
                \o render_list_item(token.content, token.ordered, token.number, 0, token.id),
     buffer |-> <<>>]

code_arm(buffer, token) ==
    [pushed |-> flush_paragraph(buffer)
                \o render_code_block(token.lang, token.text, token.id),
     buffer |-> <<>>]

horizontal_rule_arm(buffer, token) ==
    [pushed |-> flush_paragraph(buffer)
                \o <<Break(style.horizontal_rule.after_spacing, token.id)>>,
     buffer |-> <<>>]

newline_arm(buffer, token) ==
    [pushed |-> flush_paragraph(buffer), buffer |-> <<>>]

\* Mutant: the token is put at the front of the buffer.
default_arm_prepends(buffer, token) ==
    [pushed |-> <<>>, buffer |-> <<token>> \o buffer]

default_arm(buffer, token) ==
    [pushed |-> <<>>, buffer |-> Append(buffer, token)]

\* After the loop: the remaining tokens are flushed and the function
\* returns, which drops the local buffer.
final_flush(buffer) ==
    [pushed |-> flush_paragraph(buffer), buffer |-> <<>>]

match_token(buffer, token) ==
    CASE Arm(token) = "Heading" -> heading_arm(buffer, token)
      [] Arm(token) = "ListItem" -> list_item_arm(buffer, token)
      [] Arm(token) = "Code" -> code_arm(buffer, token)
      [] Arm(token) = "HorizontalRule" -> horizontal_rule_arm(buffer, token)
      [] Arm(token) = "Newline" -> newline_arm(buffer, token)
      [] OTHER -> default_arm(buffer, token)

\* The whole of process_tokens on a token sequence: the elements pushed.
RECURSIVE process_from(_, _, _)
process_from(tokens, buffer, pushed) ==
    IF tokens = <<>>
    THEN pushed \o final_flush(buffer).pushed
    ELSE LET r == match_token(buffer, Head(tokens))
         IN  process_from(Tail(tokens), r.buffer, pushed \o r.pushed)

process_tokens(tokens) == process_from(tokens, <<>>, <<>>)

(***************************************************************************)
(* The token sequences and styles the renderer is run on.                  *)
(***************************************************************************)
MaxLen == 3

MaxEmphasisDepth == 2

MaxListDepth == 5

MaxLevel == 7

T == Text(<<"t">>)

SeqsUpTo(S, n) == UNION {[1..k -> S] : k \in 0..n}

\* One-deep tokens of every variant, for the block-level walk.
TopTokens ==
    {T,
     Link(<<"l">>, <<"u">>),
     Image(<<"i">>, <<"u">>),
     Code(<<>>, <<"k">>),
     Code(<<"r", "s">>, <<"f", "n">>),
     Code(<<"r", "s">>, <<"a", "\n", "\n", "b">>),
     BlockQuote(<<"q">>),
     Table(<<<<T>>, <<T>>>>, <<"Left", "Right">>, <<<<<<T>>, <<T>>>>>>),
     HtmlComment(<<"c">>),
     Unknown(<<"x">>),
     Newline,
     HorizontalRule,
     Emphasis(1, <<T>>),
     Heading(<<T, HtmlComment(<<"c">>)>>, 2),
     ListItem(<<T>>, TRUE, Some(3)),
     ListItem(<<T, ListItem(<<T>>, FALSE, None), Link(<<"l">>, <<"u">>)>>, FALSE, None)}

\* Nested emphasis of depth at most k.
RECURSIVE InlineTrees(_)
InlineTrees(k) ==
    IF k = 0
    THEN {T}
    ELSE LET sub == InlineTrees(k - 1)
             contents == {<<x>> : x \in sub} \cup {<<T, x, T>> : x \in sub}
         IN  {T} \cup {Emphasis(l, c) : l \in 1..3, c \in contents}
                 \cup {StrongEmphasis(c) : c \in contents}

\* A ListItem's ordered flag and number: number is Some iff ordered.
Markers == {[ordered |-> FALSE, number |-> None], [ordered |-> TRUE, number |-> Some(12)]}

\* List items nested at most k deep.
RECURSIVE ListItems(_)
ListItems(k) ==
    IF k = 0
    THEN {ListItem(<<T>>, m.ordered, m.number) : m \in Markers}
    ELSE LET sub == ListItems(k - 1)
         IN  sub \cup {ListItem(<<T, x>>, m.ordered, m.number) : x \in sub, m \in Markers}

MaxCodeLen == 3

\* Code blocks: the contents of at most MaxCodeLen characters with a
\* newline, with and without a language, alone and after a text.
CodeBlocks ==
    {Code(lang, content) :
        lang \in {<<>>, <<"r", "s">>},
        content \in {c \in SeqsUpTo({"a", "\n"}, MaxCodeLen) : contains(c, "\n")}}

Inputs ==
    SeqsUpTo(TopTokens, MaxLen)
    \cup {<<x>> : x \in InlineTrees(MaxEmphasisDepth)}
    \cup {<<Heading(<<x>>, l)>> : x \in InlineTrees(MaxEmphasisDepth), l \in 1..3}
    \cup {<<ListItem(<<x>>, FALSE, None)>> : x \in InlineTrees(MaxEmphasisDepth)}
    \cup {<<x>> : x \in ListItems(MaxListDepth)}
    \cup {<<Heading(<<T>>, l)>> : l \in 0..MaxLevel}
    \cup {<<x>> : x \in CodeBlocks}
    \cup {<<T, x>> : x \in CodeBlocks}

\* Both styles for the sequences of at most two tokens, the default one for
\* the longer ones.
Styles(tokens) ==
    IF Len(tokens) <= 2 THEN {StyleMatchDefault, StyleMatchCustom} ELSE {StyleMatchDefault}

(***************************************************************************)
(* The state machine: one step per iteration of the loop of                *)
(* process_tokens, and the flush after it.                                 *)
(***************************************************************************)
Init ==
    /\ input \in {WithIds(s, <<>>) : s \in Inputs}
    /\ style \in Styles(input)
    /\ pos = 1
    /\ current_tokens = <<>>
    /\ doc = <<>>
    /\ pc = "loop"
    /\ files = <<>>
    /\ disk = <<>>
    /\ heap = <<>>
    /\ call = <<>>
    /\ result = <<>>

\* The loop is at a token that takes the given arm.
At(arm) == pc = "loop" /\ pos <= Len(input) /\ Arm(input[pos]) = arm

\* The arm's pushes and buffer take effect and the loop moves on.
Push(r) ==
    /\ doc' = doc \o r.pushed
    /\ current_tokens' = r.buffer
    /\ pos' = pos + 1
    /\ UNCHANGED <<input, style, pc>>
    /\ UNCHANGED libVars

ProcessHeading ==
    /\ At("Heading")
    /\ Push(heading_arm(current_tokens, input[pos]))

ProcessListItem ==
    /\ At("ListItem")
    /\ Push(list_item_arm(current_tokens, input[pos]))

ProcessCodeBlock ==
    /\ At("Code")
    /\ Push(code_arm(current_tokens, input[pos]))

ProcessHorizontalRule ==
    /\ At("HorizontalRule")
    /\ Push(horizontal_rule_arm(current_tokens, input[pos]))

ProcessNewline ==
    /\ At("Newline")
    /\ Push(newline_arm(current_tokens, input[pos]))

BufferToken ==
    /\ At("_")
    /\ Push(default_arm(current_tokens, input[pos]))

Finish ==
    /\ pc = "loop"
    /\ pos > Len(input)
    /\ doc' = doc \o final_flush(current_tokens).pushed
    /\ current_tokens' = final_flush(current_tokens).buffer
    /\ pc' = "done"
    /\ UNCHANGED <<input, style, pos>>
    /\ UNCHANGED libVars

Next ==
    \/ ProcessHeading
    \/ ProcessListItem
    \/ ProcessCodeBlock
    \/ ProcessHorizontalRule
    \/ ProcessNewline
    \/ BufferToken
    \/ Finish

Spec == Init /\ [][Next]_vars

\* The walk, once done, has pushed what process_tokens pushes as a whole.
TypeOK ==
    /\ pc \in {"loop", "done"}
    /\ pos \in 1..(Len(input) + 1)
    /\ pc = "done" => doc = process_tokens(input)

(***************************************************************************)
(* Font loading (src/src/lib/fonts.rs).  Names and file names are          *)
(* sequences of characters.  A function that allocates takes the heap h    *)
(* and returns [result, heap]; the heap holds the buffers that are still   *)
(* referenced when the function returns.                                   *)
(***************************************************************************)
Ok(v) == [ok |-> TRUE, v |-> v]

Err(e) == [ok |-> FALSE, err |-> e]

\* Option::ok_or
ok_or(opt, e) == IF opt = None THEN Err(e) ELSE Ok(opt[1])

\* A Result returned on the heap h.
ret(res, h) == [result |-> res, heap |-> h]

\* r?: the rest of the function on the value of an Ok and the heap it
\* left, the early return of an Err.
and_then(r, F(_, _)) == IF r.result.ok THEN F(r.result.v, r.heap) ELSE r

\* Result::or_else
or_else(r, alt) == IF r.result.ok THEN r ELSE alt

\* The buffers a function allocated on the heap h are dropped when it
\* returns an Err.
or_drop(h, r) == IF r.result.ok THEN r ELSE ret(r.result, h)

\* Arc::new(bytes): the Arc of a new buffer of the heap.
Arc_new(h, bytes) == ret(Ok(Len(h) + 1), Append(h, bytes))

Upper ==
    <<"A", "B", "C", "D", "E", "F", "G", "H", "I", "J", "K", "L", "M",
      "N", "O", "P", "Q", "R", "S", "T", "U", "V", "W", "X", "Y", "Z">>

Lower ==
    <<"a", "b", "c", "d", "e", "f", "g", "h", "i", "j", "k", "l", "m",
      "n", "o", "p", "q", "r", "s", "t", "u", "v", "w", "x", "y", "z">>

\* char::to_lowercase of the ASCII capitals.
LowerOf ==
    [c \in {Upper[k] : k \in 1..Len(Upper)} |->
        Lower[CHOOSE k \in 1..Len(Upper) : Upper[k] = c]]

to_lowercase(s) ==
    [i \in 1..Len(s) |-> IF s[i] \in DOMAIN LowerOf THEN LowerOf[s[i]] ELSE s[i]]

\* str::contains with a string pattern.
str_contains(s, t) == \E i \in 0..(Len(s) - Len(t)) : SubSeq(s, i + 1, i + Len(t)) = t

starts_with(s, t) == Len(t) <= Len(s) /\ SubSeq(s, 1, Len(t)) = t

RECURSIVE replace(_, _, _)
replace(s, from, to) ==
    IF s = <<>>
    THEN <<>>
    ELSE IF starts_with(s, from)
         THEN to \o replace(SubSeq(s, Len(from) + 1, Len(s)), from, to)
         ELSE <<Head(s)>> \o replace(Tail(s), from, to)

eq_ignore_ascii_case(a, b) == to_lowercase(a) = to_lowercase(b)

\* The position of the last '.' of a file name, 0 when there is none.
last_dot(name) ==
    IF contains(name, ".")
    THEN CHOOSE i \in 1..Len(name) :
            name[i] = "." /\ \A j \in (i + 1)..Len(name) : name[j] # "."
    ELSE 0

extension(name) ==
    IF last_dot(name) <= 1 THEN None ELSE Some(SubSeq(name, last_dot(name) + 1, Len(name)))

file_stem(name) ==
    IF last_dot(name) <= 1 THEN name ELSE SubSeq(name, 1, last_dot(name) - 1)

\* The first Some of a sequence of options, None when there is none: the
\* first iteration of a loop that returns.
first_some(opts) ==
    IF \E i \in 1..Len(opts) : opts[i] # None
    THEN opts[CHOOSE i \in 1..Len(opts) :
                 opts[i] # None /\ \A j \in 1..(i - 1) : opts[j] = None]
    ELSE None

get_font_aliases(name) ==
    LET n == to_lowercase(name)
    IN  CASE n = <<"a", "r", "i", "a", "l">> ->
               <<<<"H", "e", "l", "v", "e", "t", "i", "c", "a">>, <<"L", "i", "b", "e", "r", "a", "t", "i", "o", "n", " ", "S", "a", "n", "s">>, <<"F", "r", "e", "e", "S", "a", "n", "s">>>>
          [] n = <<"h", "e", "l", "v", "e", "t", "i", "c", "a">> ->
               <<<<"A", "r", "i", "a", "l">>, <<"L", "i", "b", "e", "r", "a", "t", "i", "o", "n", " ", "S", "a", "n", "s">>, <<"F", "r", "e", "e", "S", "a", "n", "s">>>>
          [] n \in {<<"t", "i", "m", "e", "s", " ", "n", "e", "w", " ", "r", "o", "m", "a", "n">>, <<"t", "i", "m", "e", "s">>} ->
               <<<<"T", "i", "m", "e", "s">>, <<"T", "i", "m", "e", "s", " ", "N", "e", "w", " ", "R", "o", "m", "a", "n">>, <<"L", "i", "b", "e", "r", "a", "t", "i", "o", "n", " ", "S", "e", "r", "i", "f">>, <<"F", "r", "e", "e", "S", "e", "r", "i", "f">>>>
          [] n \in {<<"c", "o", "u", "r", "i", "e", "r", " ", "n", "e", "w">>, <<"c", "o", "u", "r", "i", "e", "r">>} ->
               <<<<"C", "o", "u", "r", "i", "e", "r">>, <<"C", "o", "u", "r", "i", "e", "r", " ", "N", "e", "w">>, <<"L", "i", "b", "e", "r", "a", "t", "i", "o", "n", " ", "M", "o", "n", "o">>, <<"F", "r", "e", "e", "M", "o", "n", "o">>>>
          [] n = <<"v", "e", "r", "d", "a", "n", "a">> ->
               <<<<"D", "e", "j", "a", "V", "u", " ", "S", "a", "n", "s">>, <<"B", "i", "t", "s", "t", "r", "e", "a", "m", " ", "V", "e", "r", "a", " ", "S", "a", "n", "s">>>>
          [] n = <<"g", "e", "o", "r", "g", "i", "a">> ->
               <<<<"L", "i", "b", "e", "r", "a", "t", "i", "o", "n", " ", "S", "e", "r", "i", "f">>, <<"F", "r", "e", "e", "S", "e", "r", "i", "f">>>>
          [] n \in {<<"c", "o", "m", "i", "c", " ", "s", "a", "n", "s", " ", "m", "s">>, <<"c", "o", "m", "i", "c", " ", "s", "a", "n", "s">>} ->
               <<<<"C", "o", "m", "i", "c", " ", "N", "e", "u", "e">>, <<"C", "o", "m", "i", "c", " ", "R", "e", "l", "i", "e", "f">>>>
          [] OTHER -> <<>>

\* FontVariant::suffixes
suffixes(variant) ==
    CASE variant = "Regular" -> <<<<"R", "e", "g", "u", "l", "a", "r">>, <<>>>>
      [] variant = "Bold" -> <<<<"B", "o", "l", "d">>, <<"B", "d">>, <<"B">>>>
      [] variant = "Italic" -> <<<<"I", "t", "a", "l", "i", "c">>, <<"I", "t">>, <<"I">>, <<"O", "b", "l", "i", "q", "u", "e">>>>
      [] variant = "BoldItalic" ->
           <<<<"B", "o", "l", "d", "I", "t", "a", "l", "i", "c">>, <<"B", "o", "l", "d", " ", "I", "t", "a", "l", "i", "c">>, <<"B", "o", "l", "d", "I", "t">>, <<"B", "d", "I", "t">>, <<"B", "I">>>>

\* A font file: its directory, file name, the family name of its face, and
\* its bytes.  The bytes say whether they parse as a font (valid), which
\* characters the font covers, how get_data and the subsetter of the PDF
\* library behave on a font made of them ("ok", "no_data", "fails"), and,
\* for the bytes of a subset, the text they were subsetted to.
FontFile(dir, name, family, id, valid, covers, subset) ==
    [dir |-> dir, name |-> name, family |-> family,
     bytes |-> [id |-> id, text |-> None, valid |-> valid, covers |-> covers,
                subset |-> subset]]

\* fs::read of an existing file (every file of the system can be read).
read(dir, name) ==
    IF \E i \in 1..Len(files) : files[i].dir = dir /\ files[i].name = name
    THEN Some(files[CHOOSE i \in 1..Len(files) :
                        files[i].dir = dir /\ files[i].name = name].bytes)
    ELSE None

\* rusttype::Font::from_bytes(bytes).is_ok()
from_bytes_is_ok(bytes) == bytes.valid

\* The bytes read from a file when they parse as a font.
parsed(bytes) == IF bytes # None /\ from_bytes_is_ok(bytes[1]) THEN bytes ELSE None

\* FontData::new_shared(Arc, builtin): the font is parsed from the buffer
\* the Arc points to and keeps the Arc.
new_shared(h, arc, builtin) ==
    IF h[arc].valid
    THEN Ok([data |-> arc, builtin |-> builtin, glyph_id_map |-> None])
    ELSE Err("InvalidFont")

FontFamily(regular, bold_, italic_, bold_italic) ==
    [regular |-> regular, bold |-> bold_, italic |-> italic_, bold_italic |-> bold_italic]

\* The directories of the fast path (target_os = "linux").
common_font_dirs ==
    <<"/usr/share/fonts/truetype", "/usr/share/fonts/TTF", "/usr/local/share/fonts">>

\* The directory an application passes as a custom path.
CustomDir == "./fonts"

\* FONT_DATABASE.faces(): the font files of the system directories, in the
\* order of the scan.
faces == SelectSeq(files, LAMBDA f : f.dir # CustomDir)

is_ttc(name) ==
    extension(name) # None /\ eq_ignore_ascii_case(extension(name)[1], <<"t", "t", "c">>)

is_ttf_or_otf(name) ==
    /\ extension(name) # None
    /\ \/ eq_ignore_ascii_case(extension(name)[1], <<"t", "t", "f">>)
       \/ eq_ignore_ascii_case(extension(name)[1], <<"o", "t", "f">>)

load_system_font_bytes_fallback(candidates) ==
    LET patterns(c) ==
            <<c \o <<".", "t", "t", "f">>, c \o <<".", "o", "t", "f">>, c \o <<" ", "R", "e", "g", "u", "l", "a", "r", ".", "t", "t", "f">>, c \o <<"-", "R", "e", "g", "u", "l", "a", "r", ".", "t", "t", "f">>>>
        fast ==
            first_some(Concat([d \in 1..Len(common_font_dirs) |->
                Concat([c \in 1..Len(candidates) |->
                    [p \in 1..4 |->
                        parsed(read(common_font_dirs[d], patterns(candidates[c])[p]))]])]))
        named ==
            first_some([i \in 1..Len(faces) |->
                IF /\ ~is_ttc(faces[i].name)
                   /\ \E c \in 1..Len(candidates) :
                         str_contains(to_lowercase(faces[i].name), to_lowercase(candidates[c]))
                THEN parsed(Some(faces[i].bytes))
                ELSE None])
        any ==
            first_some([i \in 1..Len(faces) |->
                IF is_ttf_or_otf(faces[i].name) THEN parsed(Some(faces[i].bytes)) ELSE None])
    IN  ok_or(first_some(<<fast, named, any>>), "InvalidFont")

BuiltinVariants(name) ==
    LET n == to_lowercase(name)
    IN  CASE n \in {<<"t", "i", "m", "e", "s">>, <<"t", "i", "m", "e", "s", "n", "e", "w", "r", "o", "m", "a", "n">>, <<"t", "i", "m", "e", "s", " ", "n", "e", "w", " ", "r", "o", "m", "a", "n">>, <<"s", "e", "r", "i", "f">>} -> "Times"
          [] n \in {<<"c", "o", "u", "r", "i", "e", "r">>, <<"c", "o", "u", "r", "i", "e", "r", "n", "e", "w">>, <<"c", "o", "u", "r", "i", "e", "r", " ", "n", "e", "w">>, <<"m", "o", "n", "o", "s", "p", "a", "c", "e">>} -> "Courier"
          [] OTHER -> "Helvetica"

builtin_candidates(builtin_variants) ==
    CASE builtin_variants = "Times" ->
           <<<<"T", "i", "m", "e", "s", " ", "N", "e", "w", " ", "R", "o", "m", "a", "n">>, <<"T", "i", "m", "e", "s">>, <<"L", "i", "b", "e", "r", "a", "t", "i", "o", "n", " ", "S", "e", "r", "i", "f">>>>
      [] builtin_variants = "Courier" ->
           <<<<"C", "o", "u", "r", "i", "e", "r", " ", "N", "e", "w">>, <<"C", "o", "u", "r", "i", "e", "r">>, <<"L", "i", "b", "e", "r", "a", "t", "i", "o", "n", " ", "M", "o", "n", "o">>>>
      [] builtin_variants = "Helvetica" ->
           <<<<"H", "e", "l", "v", "e", "t", "i", "c", "a">>, <<"A", "r", "i", "a", "l">>, <<"L", "i", "b", "e", "r", "a", "t", "i", "o", "n", " ", "S", "a", "n", "s">>>>

\* BuiltinVariants::variant
variant(builtin_variants, fstyle) ==
    CASE builtin_variants = "Helvetica" ->
           (CASE fstyle = "Regular" -> "Helvetica"
              [] fstyle = "Bold" -> "HelveticaBold"
              [] fstyle = "Italic" -> "HelveticaOblique"
              [] fstyle = "BoldItalic" -> "HelveticaBoldOblique")
      [] builtin_variants = "Times" ->
           (CASE fstyle = "Regular" -> "TimesRoman"
              [] fstyle = "Bold" -> "TimesBold"
              [] fstyle = "Italic" -> "TimesItalic"
              [] fstyle = "BoldItalic" -> "TimesBoldItalic")
      [] builtin_variants = "Courier" ->
           (CASE fstyle = "Regular" -> "Courier"
              [] fstyle = "Bold" -> "CourierBold"
              [] fstyle = "Italic" -> "CourierOblique"
              [] fstyle = "BoldItalic" -> "CourierBoldOblique")

\* Mutant: every face gets its own copy of the bytes.
mk_data_copies(h, font_bytes, builtin) ==
    and_then(Arc_new(h, h[font_bytes]), LAMBDA copy, h1 :
        ret(new_shared(h1, copy, Some(builtin)), h1))

\* The closure mk_data: a face on the shared buffer.
mk_data(h, font_bytes, builtin) == ret(new_shared(h, font_bytes, Some(builtin)), h)

load_builtin_font_family(name, h) ==
    LET builtin_variants == BuiltinVariants(name)
        candidates == builtin_candidates(builtin_variants)
    IN  or_drop(h,
        and_then(ret(load_system_font_bytes_fallback(candidates), h), LAMBDA bytes, h0 :
        and_then(Arc_new(h0, bytes), LAMBDA font_bytes, h1 :
        and_then(mk_data(h1, font_bytes, variant(builtin_variants, "Regular")), LAMBDA r, h2 :
        and_then(mk_data(h2, font_bytes, variant(builtin_variants, "Bold")), LAMBDA b, h3 :
        and_then(mk_data(h3, font_bytes, variant(builtin_variants, "Italic")), LAMBDA i, h4 :
        and_then(mk_data(h4, font_bytes, variant(builtin_variants, "BoldItalic")),
                 LAMBDA bi, h5 :
        ret(Ok(FontFamily(r, b, i, bi)), h5))))))))

\* fs::read of the path a search settled on.
read_path(f) == IF f = None THEN None ELSE Some(f[1].bytes)

\* regular.clone() for the four faces: the clones keep the Arc of regular.
cloned_family(regular) == FontFamily(regular, regular, regular, regular)

\* The face the slow path of load_system_font_family_simple settles on for
\* a wanted name: the first face with the best score (3 exact family name,
\* 2 exact file stem, 1 family name contains the name), collections skipped.
best_path(wanted) ==
    LET eligible == SelectSeq(faces, LAMBDA f : ~is_ttc(f.name))
        score(f) ==
            IF to_lowercase(f.family) = wanted THEN 3
            ELSE IF to_lowercase(file_stem(f.name)) = wanted THEN 2
            ELSE IF str_contains(to_lowercase(f.family), wanted) THEN 1
            ELSE 0
        best_score ==
            IF eligible = <<>>
            THEN 0
            ELSE CHOOSE m \in 0..3 :
                    /\ \E i \in 1..Len(eligible) : score(eligible[i]) = m
                    /\ \A i \in 1..Len(eligible) : score(eligible[i]) <= m
    IN  IF best_score = 0
        THEN None
        ELSE Some(eligible[CHOOSE i \in 1..Len(eligible) :
                              /\ score(eligible[i]) = best_score
                              /\ \A j \in 1..(i - 1) : score(eligible[j]) < best_score])

load_system_font_family_simple(name, h) ==
    LET candidates == <<name>> \o get_font_aliases(name)
        patterns(c) ==
            <<c \o <<".", "t", "t", "f">>, c \o <<".", "o", "t", "f">>, c \o <<" ", "R", "e", "g", "u", "l", "a", "r", ".", "t", "t", "f">>, c \o <<"-", "R", "e", "g", "u", "l", "a", "r", ".", "t", "t", "f">>,
              replace(replace(c, <<" ", "M", "S">>, <<>>), <<" ", "m", "s">>, <<>>) \o <<".", "t", "t", "f">>>>
        either_prefix(file_stem_, wanted) ==
            starts_with(file_stem_, wanted) \/ starts_with(wanted, file_stem_)
        probe(dir, c, file) ==
            IF either_prefix(to_lowercase(file_stem(file)),
                             replace(to_lowercase(c), <<" ", "m", "s">>, <<>>))
            THEN parsed(read(dir, file))
            ELSE None
        fast ==
            first_some(Concat([d \in 1..Len(common_font_dirs) |->
                Concat([c \in 1..Len(candidates) |->
                    [p \in 1..5 |->
                        probe(common_font_dirs[d], candidates[c], patterns(candidates[c])[p])]])]))
        slow ==
            first_some([c \in 1..Len(candidates) |->
                parsed(read_path(best_path(to_lowercase(candidates[c]))))])
    IN  and_then(ret(ok_or(first_some(<<fast, slow>>), "InvalidFont"), h), LAMBDA bytes, h0 :
        and_then(Arc_new(h0, bytes), LAMBDA shared, h1 :
        and_then(ret(new_shared(h1, shared, None), h1), LAMBDA regular, h2 :
        ret(Ok(cloned_family(regular)), h2))))

\* A custom path: a directory, or a font file named directly.
DirPath(dir) == [kind |-> "dir", dir |-> dir]

FilePath(dir, name) == [kind |-> "file", dir |-> dir, name |-> name]

is_dir(path) == path.kind = "dir" /\ path.dir = CustomDir

is_file(path) == path.kind = "file" /\ read(path.dir, path.name) # None

\* fs::read_dir of a directory, in the order of the scan.
read_dir(dir) == SelectSeq(files, LAMBDA f : f.dir = dir)

find_font_variant_in_paths(base_name, fvariant, custom_paths) ==
    LET candidates == <<base_name>> \o get_font_aliases(base_name)
        patterns(base_lower, suffix) ==
            IF suffix = <<>>
            THEN IF fvariant = "Regular"
                 THEN <<base_lower \o <<".", "t", "t", "f">>, base_lower \o <<".", "o", "t", "f">>>>
                 ELSE <<>>
            ELSE LET s == to_lowercase(suffix)
                 IN  <<base_lower \o <<"-">> \o s \o <<".", "t", "t", "f">>,
                       base_lower \o s \o <<".", "t", "t", "f">>,
                       base_lower \o <<"_">> \o s \o <<".", "t", "t", "f">>,
                       base_lower \o <<" ">> \o s \o <<".", "t", "t", "f">>,
                       base_lower \o <<"-">> \o s \o <<".", "o", "t", "f">>,
                       base_lower \o s \o <<".", "o", "t", "f">>>>
        in_entry(base_lower, f) ==
            IF ~is_ttf_or_otf(f.name)
            THEN <<>>
            ELSE Concat([s \in 1..Len(suffixes(fvariant)) |->
                    LET ps == patterns(base_lower, suffixes(fvariant)[s])
                    IN  [p \in 1..Len(ps) |->
                            IF /\ str_contains(to_lowercase(f.name), ps[p])
                               /\ from_bytes_is_ok(f.bytes)
                            THEN Some(f.bytes)
                            ELSE None]])
        in_path(base_lower, path) ==
            IF ~is_dir(path)
            THEN <<>>
            ELSE Concat([e \in 1..Len(read_dir(path.dir)) |->
                    in_entry(base_lower, read_dir(path.dir)[e])])
    IN  first_some(Concat([c \in 1..Len(candidates) |->
            Concat([p \in 1..Len(custom_paths) |->
                in_path(replace(to_lowercase(candidates[c]), <<" ">>, <<>>), custom_paths[p])])]))

\* The face of a variant: a face on a buffer of its own when its bytes were
\* found and parse, the stand-in otherwise.
variant_face(h, bytes, standin) ==
    IF parsed(bytes) # None
    THEN and_then(Arc_new(h, bytes[1]), LAMBDA arc, h1 : ret(new_shared(h1, arc, None), h1))
    ELSE ret(Ok(standin), h)

load_font_family_with_variants(name, custom_paths, h) ==
    LET find(fvariant) == find_font_variant_in_paths(name, fvariant, custom_paths)
    IN  or_drop(h,
        and_then(ret(ok_or(find("Regular"), "InvalidFont"), h), LAMBDA regular_bytes, h0 :
        and_then(Arc_new(h0, regular_bytes), LAMBDA regular_shared, h1 :
        and_then(ret(new_shared(h1, regular_shared, None), h1), LAMBDA regular, h2 :
        and_then(variant_face(h2, find("Bold"), regular), LAMBDA bold_, h3 :
        and_then(variant_face(h3, find("Italic"), regular), LAMBDA italic_, h4 :
        and_then(variant_face(h4, find("BoldItalic"), bold_), LAMBDA bold_italic, h5 :
        ret(Ok(FontFamily(regular, bold_, italic_, bold_italic)), h5))))))))

\* The family of a single font file: the closure mk makes the four faces on
\* the one shared buffer.
single_file_family(bytes, h) ==
    or_drop(h,
    and_then(Arc_new(h, bytes), LAMBDA shared, h1 :
    and_then(ret(new_shared(h1, shared, None), h1), LAMBDA regular, h2 :
    and_then(ret(new_shared(h2, shared, None), h2), LAMBDA bold_, h3 :
    and_then(ret(new_shared(h3, shared, None), h3), LAMBDA italic_, h4 :
    and_then(ret(new_shared(h4, shared, None), h4), LAMBDA bold_italic, h5 :
    ret(Ok(FontFamily(regular, bold_, italic_, bold_italic)), h5)))))))

load_custom_font_family(name, custom_paths, h) ==
    LET matching(file_name, bytes) ==
            IF str_contains(to_lowercase(file_name), to_lowercase(name))
            THEN parsed(bytes)
            ELSE None
        in_dir(f) == IF is_ttf_or_otf(f.name) THEN matching(f.name, Some(f.bytes)) ELSE None
        in_path(path) ==
            IF is_file(path)
            THEN <<matching(path.name, read(path.dir, path.name))>>
            ELSE IF is_dir(path)
                 THEN [e \in 1..Len(read_dir(path.dir)) |-> in_dir(read_dir(path.dir)[e])]
                 ELSE <<>>
        single_or_system(single) ==
            IF single # None
            THEN single_file_family(single[1], h)
            ELSE load_system_font_family_simple(name, h)
    IN  or_else(load_font_family_with_variants(name, custom_paths, h),
                single_or_system(
                    first_some(Concat([p \in 1..Len(custom_paths) |-> in_path(custom_paths[p])]))))

\* load_custom_font_family(..).or_else(load_system_font_family_simple) when
\* there are custom paths, load_system_font_family_simple otherwise.
load_custom_or_system(name, custom_paths, h) ==
    IF custom_paths # <<>>
    THEN or_else(load_custom_font_family(name, custom_paths, h),
                 load_system_font_family_simple(name, h))
    ELSE load_system_font_family_simple(name, h)

\* Result::ok
ok(r) == IF r.result.ok THEN Some(r) ELSE None

\* Option::unwrap_or
unwrap_or(opt, alt) == IF opt = None THEN alt ELSE opt[1]

\* FontData::check_coverage(text): the number of characters of text the
\* font has a glyph for; the coverage is complete when it has them all.
covered(h, font, text) == Len(SelectSeq(text, LAMBDA c : c \in h[font.data].covers))

\* The loop over the fallbacks of load_font_with_fallbacks when there is a
\* text: the first fallback with complete coverage, else the font with the
\* best coverage so far (best is None or Some of a loaded family).
RECURSIVE try_fallbacks(_, _, _, _, _, _)
try_fallbacks(fallback_names, custom_paths, text, h, best_font, best_coverage) ==
    LET rest(font, coverage) ==
            try_fallbacks(Tail(fallback_names), custom_paths, text, h, font, coverage)
        try(fallback, coverage) ==
            IF ~fallback.result.ok THEN rest(best_font, best_coverage)
            ELSE IF coverage = Len(text) THEN Some(fallback)
            ELSE IF coverage > best_coverage THEN rest(Some(fallback), coverage)
            ELSE rest(best_font, best_coverage)
        tried(fallback) ==
            try(fallback, IF fallback.result.ok
                          THEN covered(fallback.heap, fallback.result.v.regular, text)
                          ELSE 0)
    IN  IF fallback_names = <<>>
        THEN best_font
        ELSE tried(load_custom_or_system(Head(fallback_names), custom_paths, h))

load_font_with_fallbacks(primary_name, fallback_names, custom_paths, text, h) ==
    LET not_found == ret(Err("InvalidFont"), h)
        first_system ==
            first_some([i \in 1..Len(fallback_names) |->
                ok(load_system_font_family_simple(fallback_names[i], h))])
        best(primary, coverage) ==
            IF primary.result.ok /\ coverage = Len(text[1])
            THEN primary
            ELSE unwrap_or(try_fallbacks(fallback_names, custom_paths, text[1], h,
                                         ok(primary), coverage),
                           not_found)
        loaded(primary) ==
            IF text = None
            THEN or_else(primary, unwrap_or(first_system, not_found))
            ELSE best(primary, IF primary.result.ok
                               THEN covered(primary.heap, primary.result.v.regular, text[1])
                               ELSE 0)
    IN  loaded(load_custom_or_system(primary_name, custom_paths, h))

\* FontData::get_data and the subsetter of the PDF library, decided by the
\* bytes of the font.
get_data(h, font) == IF h[font.data].subset = "no_data" THEN Err("get_data") ELSE Ok(h[font.data])

subset_font(data, text) ==
    IF data.subset = "fails"
    THEN Err("subsetting")
    ELSE Ok([data EXCEPT !.text = Some(text),
                         !.covers = {c \in @ : contains(text, c)}])

clone_with_data(font, arc, glyph_id_map) ==
    [data |-> arc, builtin |-> font.builtin, glyph_id_map |-> glyph_id_map]

\* Mutant: a failure of the subsetter is returned to the caller.
apply_subsetting_if_enabled_raises(family, enable_subsetting, text, h) ==
    LET subsetted(subset_result) ==
            IF ~subset_result.ok
            THEN ret(subset_result, h)
            ELSE and_then(Arc_new(h, subset_result.v), LAMBDA subset_arc, h1 :
                 ret(Ok(cloned_family(clone_with_data(family.regular, subset_arc,
                                                      Some(text[1])))), h1))
        with_data(original_data) ==
            IF ~original_data.ok
            THEN ret(Ok(family), h)
            ELSE subsetted(subset_font(original_data.v, text[1]))
    IN  IF ~enable_subsetting \/ text = None THEN ret(Ok(family), h)
        ELSE IF text[1] = <<>> THEN ret(Ok(family), h)
        ELSE with_data(get_data(h, family.regular))

apply_subsetting_if_enabled(family, enable_subsetting, text, h) ==
    LET subsetted(subset_result) ==
            IF ~subset_result.ok
            THEN ret(Ok(family), h)
            ELSE and_then(Arc_new(h, subset_result.v), LAMBDA subset_arc, h1 :
                 ret(Ok(cloned_family(clone_with_data(family.regular, subset_arc,
                                                      Some(text[1])))), h1))
        with_data(original_data) ==
            IF ~original_data.ok
            THEN ret(Ok(family), h)
            ELSE subsetted(subset_font(original_data.v, text[1]))
    IN  IF ~enable_subsetting \/ text = None THEN ret(Ok(family), h)
        ELSE IF text[1] = <<>> THEN ret(Ok(family), h)
        ELSE with_data(get_data(h, family.regular))

\* FontConfig (the fields load_font_with_config reads).
FontConfig(custom_paths, fallback_fonts, enable_subsetting) ==
    [custom_paths |-> custom_paths, fallback_fonts |-> fallback_fonts,
     enable_subsetting |-> enable_subsetting]

is_builtin_name(name) ==
    to_lowercase(name) \in
        {<<"h", "e", "l", "v", "e", "t", "i", "c", "a">>, <<"a", "r", "i", "a", "l">>, <<"s", "a", "n", "s">>, <<"s", "a", "n", "s", "-", "s", "e", "r", "i", "f">>, <<"t", "i", "m", "e", "s">>, <<"t", "i", "m", "e", "s", "n", "e", "w", "r", "o", "m", "a", "n">>,
         <<"t", "i", "m", "e", "s", " ", "n", "e", "w", " ", "r", "o", "m", "a", "n">>, <<"s", "e", "r", "i", "f">>, <<"c", "o", "u", "r", "i", "e", "r">>, <<"m", "o", "n", "o", "s", "p", "a", "c", "e">>}

load_font_with_config(name, config, text, h) ==
    LET enable_subsetting == IF config = None THEN TRUE ELSE config[1].enable_subsetting
        subset(family, h1) == apply_subsetting_if_enabled(family, enable_subsetting, text, h1)
        by_name ==
            IF is_builtin_name(name)
            THEN load_builtin_font_family(name, h)
            ELSE and_then(load_system_font_family_simple(name, h), subset)
        custom(loaded) == IF loaded.result.ok THEN and_then(loaded, subset) ELSE by_name
    IN  IF config # None /\ config[1].fallback_fonts # <<>>
        THEN and_then(load_font_with_fallbacks(name, config[1].fallback_fonts,
                                               config[1].custom_paths, text, h),
                      subset)
        ELSE IF config # None /\ config[1].custom_paths # <<>>
        THEN custom(load_custom_font_family(name, config[1].custom_paths, h))
        ELSE by_name

\* genpdfi::fonts::FontFallbackChain
FontFallbackChain(primary, fallbacks) == [primary |-> primary, fallbacks |-> fallbacks]

\* The loop over the fallback names of load_font_with_fallback_chain: the
\* families that load, in order, and the heap with their buffers.
RECURSIVE load_fallback_families(_, _, _, _)
load_fallback_families(fallback_names, custom_paths, h, loaded) ==
    LET next(fallback_family) ==
            IF fallback_family.result.ok
            THEN load_fallback_families(Tail(fallback_names), custom_paths,
                                        fallback_family.heap,
                                        Append(loaded, fallback_family.result.v))
            ELSE load_fallback_families(Tail(fallback_names), custom_paths, h, loaded)
    IN  IF fallback_names = <<>>
        THEN ret(Ok(loaded), h)
        ELSE next(load_custom_or_system(Head(fallback_names), custom_paths, h))

\* The chain of a face: the face of the primary family, then the face of
\* each fallback family.
chain_of(primary_family, fallback_families, face) ==
    FontFallbackChain(primary_family[face],
                      [k \in 1..Len(fallback_families) |-> fallback_families[k][face]])

load_font_with_fallback_chain(primary_name, fallback_names, custom_paths, h) ==
    and_then(load_custom_or_system(primary_name, custom_paths, h), LAMBDA primary_family, h1 :
    and_then(load_fallback_families(fallback_names, custom_paths, h1, <<>>),
             LAMBDA fallback_families, h2 :
    ret(Ok(FontFamily(chain_of(primary_family, fallback_families, "regular"),
                      chain_of(primary_family, fallback_families, "bold"),
                      chain_of(primary_family, fallback_families, "italic"),
                      chain_of(primary_family, fallback_families, "bold_italic"))), h2)))

\* FontFallbackChain::segment_text, per character: the position in the
\* chain (0 the primary, k the k-th fallback) of the first font that covers
\* the character, the primary when none does.
font_for_char(h, chain, c) ==
    IF c \in h[chain.primary.data].covers
    THEN 0
    ELSE IF \E k \in 1..Len(chain.fallbacks) : c \in h[chain.fallbacks[k].data].covers
         THEN CHOOSE k \in 1..Len(chain.fallbacks) :
                 /\ c \in h[chain.fallbacks[k].data].covers
                 /\ \A j \in 1..(k - 1) : c \notin h[chain.fallbacks[j].data].covers
         ELSE 0

\* font_chars[font]: the text of the segments of the font at a position.
font_chars(h, chain, text, position) ==
    SelectSeq(text, LAMBDA c : font_for_char(h, chain, c) = position)

subset_single_font(h, font, text) ==
    and_then(ret(get_data(h, font), h), LAMBDA original_data, h0 :
    and_then(ret(subset_font(original_data, text), h0), LAMBDA subset_data, h1 :
    and_then(Arc_new(h1, subset_data), LAMBDA arc, h2 :
    ret(new_shared(h2, arc, None), h2))))

\* A font of a chain subsetted to the text of its segments, the font itself
\* when it has none.
subset_used(h, font, font_text) ==
    IF font_text # <<>> THEN subset_single_font(h, font, font_text) ELSE ret(Ok(font), h)

\* The loop over the fallbacks of subset_chain, from the k-th on.  h0 is the
\* heap the chain was segmented on.
RECURSIVE subset_fallbacks(_, _, _, _, _, _)
subset_fallbacks(h0, chain, text, k, h, done) ==
    IF k > Len(chain.fallbacks)
    THEN ret(Ok(done), h)
    ELSE and_then(subset_used(h, chain.fallbacks[k], font_chars(h0, chain, text, k)),
                  LAMBDA subset_fallback, h1 :
         subset_fallbacks(h0, chain, text, k + 1, h1, Append(done, subset_fallback)))

subset_chain(h0, chain, text, h) ==
    and_then(subset_used(h, chain.primary, font_chars(h0, chain, text, 0)),
             LAMBDA subset_primary, h1 :
    and_then(subset_fallbacks(h0, chain, text, 1, h1, <<>>), LAMBDA fallbacks, h2 :
    ret(Ok(FontFallbackChain(subset_primary, fallbacks)), h2)))

apply_subsetting_to_chain(chain_family, text, h) ==
    IF text = <<>>
    THEN ret(Ok(chain_family), h)
    ELSE or_drop(h,
         and_then(subset_chain(h, chain_family.regular, text, h), LAMBDA subset_regular, h1 :
         and_then(subset_chain(h, chain_family.bold, text, h1), LAMBDA subset_bold, h2 :
         and_then(subset_chain(h, chain_family.italic, text, h2), LAMBDA subset_italic, h3 :
         and_then(subset_chain(h, chain_family.bold_italic, text, h3),
                  LAMBDA subset_bold_italic, h4 :
         ret(Ok(FontFamily(subset_regular, subset_bold, subset_italic, subset_bold_italic)),
             h4))))))

\* A panic of the calling thread (Result::expect on an Err).
Panic(message) == [ok |-> FALSE, err |-> "panic", message |-> message]

\* Result::expect: the value of an Ok, a panic with the message on an Err.
expect(r, message) == IF r.result.ok THEN r ELSE ret(Panic(message), r.heap)

\* Pdf::new: the two font families of a Pdf; font_family is
\* style.text.font_family.
Pdf_new(font_family, h) ==
    LET family_name == IF font_family = None THEN <<"h", "e", "l", "v", "e", "t", "i", "c", "a">> ELSE font_family[1]
        text_font ==
            IF is_builtin_name(family_name)
            THEN expect(load_builtin_font_family(family_name, h),
                        "Failed to load built-in font family")
            ELSE or_else(load_system_font_family_simple(family_name, h),
                         expect(load_builtin_font_family(<<"h", "e", "l", "v", "e", "t", "i", "c", "a">>, h),
                                "Failed to load fallback font family"))
    IN  or_drop(h,
        and_then(text_font, LAMBDA text_font_family, h1 :
        and_then(expect(load_builtin_font_family(<<"c", "o", "u", "r", "i", "e", "r">>, h1),
                        "Failed to load code font family"), LAMBDA code_font_family, h2 :
        ret(Ok([font_family |-> text_font_family, code_font_family |-> code_font_family]),
            h2))))

(***************************************************************************)
(* The systems, names, configurations and texts the font functions are     *)
(* called on, and the calls.                                               *)
(***************************************************************************)
MaxFontFiles == 2

\* The font files a system can have, in the order of the scan.
FontFiles ==
    <<FontFile("/usr/share/fonts/truetype", <<"A", "r", "i", "a", "l", ".", "t", "t", "f">>, <<"A", "r", "i", "a", "l">>, "Arial",
               TRUE, {"a"}, "ok"),
      FontFile("/usr/share/fonts/truetype", <<"C", "o", "u", "r", "i", "e", "r", " ", "N", "e", "w", ".", "t", "t", "f">>, <<"C", "o", "u", "r", "i", "e", "r", " ", "N", "e", "w">>, "CourierNew",
               FALSE, {}, "fails"),
      FontFile("/usr/share/fonts/opentype", <<"G", "e", "o", "r", "g", "i", "a", ".", "o", "t", "f">>, <<"G", "e", "o", "r", "g", "i", "a">>, "Georgia",
               TRUE, {"a", "z"}, "fails"),
      FontFile("/usr/share/fonts/opentype", <<"H", "e", "l", "v", "e", "t", "i", "c", "a", ".", "t", "t", "c">>, <<"H", "e", "l", "v", "e", "t", "i", "c", "a">>, "HelveticaTtc",
               TRUE, {"a"}, "ok"),
      FontFile(CustomDir, <<"a", "r", "i", "a", "l", ".", "t", "t", "f">>, <<"A", "r", "i", "a", "l">>, "CustomArial",
               TRUE, {"a"}, "ok"),
      FontFile(CustomDir, <<"a", "r", "i", "a", "l", "-", "b", "o", "l", "d", ".", "t", "t", "f">>, <<"A", "r", "i", "a", "l">>, "CustomArialBold",
               TRUE, {"a"}, "ok"),
      FontFile(CustomDir, <<"G", "e", "o", "r", "g", "i", "a", "P", "r", "o", ".", "t", "t", "f">>, <<"G", "e", "o", "r", "g", "i", "a", " ", "P", "r", "o">>, "GeorgiaPro",
               TRUE, {"z"}, "no_data"),
      FontFile("/usr/share/fonts/truetype", <<"F", "r", "e", "e", "S", "e", "r", "i", "f", ".", "t", "t", "f">>, <<"F", "r", "e", "e", "S", "e", "r", "i", "f">>, "FreeSerif",
               TRUE, {"a"}, "ok")>>

\* A system has some of the font files.
Systems ==
    {SelectSeq(FontFiles, LAMBDA f : f \in S) :
        S \in {X \in SUBSET {FontFiles[i] : i \in 1..Len(FontFiles)} :
                  Cardinality(X) <= MaxFontFiles}}

FontNames == {<<"H", "e", "l", "v", "e", "t", "i", "c", "a">>, <<"a", "r", "i", "a", "l">>, <<"c", "o", "u", "r", "i", "e", "r">>, <<"G", "e", "o", "r", "g", "i", "a">>, <<"V", "e", "r", "d", "a", "n", "a">>}

CustomPaths ==
    {<<>>, <<DirPath(CustomDir)>>, <<FilePath(CustomDir, <<"G", "e", "o", "r", "g", "i", "a", "P", "r", "o", ".", "t", "t", "f">>)>>,
     <<DirPath("./missing")>>}

FallbackFonts == {<<>>, <<<<"G", "e", "o", "r", "g", "i", "a">>>>, <<<<"V", "e", "r", "d", "a", "n", "a">>, <<"A", "r", "i", "a", "l">>>>}

\* The names load_font_with_config and load_font_with_fallback_chain are
\* called with: a built-in name and one that is not.
ConfigNames == {<<"a", "r", "i", "a", "l">>, <<"G", "e", "o", "r", "g", "i", "a">>}

ConfigPaths == {<<>>, <<DirPath(CustomDir)>>}

FontConfigs ==
    {None} \cup {Some(FontConfig(p, f, e)) :
                    p \in ConfigPaths, f \in FallbackFonts, e \in BOOLEAN}

Texts == {<<>>, <<"a">>, <<"a", "z">>}

OptionalTexts == {None} \cup {Some(t) : t \in Texts}

\* The families the loaders return on the system, to subset.
LoadedFamilies ==
    {l \in {load_custom_or_system(n, p, <<>>) : n \in FontNames, p \in CustomPaths}
          \cup {load_builtin_font_family(n, <<>>) : n \in FontNames} :
        l.result.ok}

LoadedChains ==
    {l \in {load_font_with_fallback_chain(n, f, p, <<>>) :
                n \in ConfigNames, f \in FallbackFonts, p \in ConfigPaths} :
        l.result.ok}

FontInit ==
    /\ files \in Systems
    /\ heap = <<>>
    /\ call = None
    /\ result = None
    /\ disk = <<>>
    /\ input = <<>>
    /\ style = StyleMatchDefault
    /\ pos = 1
    /\ current_tokens = <<>>
    /\ doc = <<>>
    /\ pc = "fonts"

\* The call is made on the heap given and returns.
Returns(c, r) ==
    /\ call' = Some(c)
    /\ result' = Some(r.result)
    /\ heap' = r.heap
    /\ UNCHANGED <<files, disk>>
    /\ UNCHANGED walkVars

LoadBuiltinFontFamily ==
    /\ pc = "fonts" /\ call = None
    /\ \E name \in FontNames :
          Returns([fn |-> "load_builtin_font_family", name |-> name],
                  load_builtin_font_family(name, heap))

LoadSystemFontFamilySimple ==
    /\ pc = "fonts" /\ call = None
    /\ \E name \in FontNames :
          Returns([fn |-> "load_system_font_family_simple", name |-> name],
                  load_system_font_family_simple(name, heap))

LoadCustomFontFamily ==
    /\ pc = "fonts" /\ call = None
    /\ \E name \in FontNames, custom_paths \in CustomPaths :
          Returns([fn |-> "load_custom_font_family", name |-> name,
                   custom_paths |-> custom_paths],
                  load_custom_font_family(name, custom_paths, heap))

LoadFontWithConfig ==
    /\ pc = "fonts" /\ call = None
    /\ \E name \in ConfigNames, config \in FontConfigs, text \in OptionalTexts :
          Returns([fn |-> "load_font_with_config", name |-> name, config |-> config,
                   text |-> text],
                  load_font_with_config(name, config, text, heap))

LoadFontWithFallbacks ==
    /\ pc = "fonts" /\ call = None
    /\ \E primary_name \in ConfigNames, fallback_names \in FallbackFonts,
          custom_paths \in ConfigPaths, text \in OptionalTexts :
          Returns([fn |-> "load_font_with_fallbacks", primary_name |-> primary_name,
                   fallback_names |-> fallback_names, custom_paths |-> custom_paths,
                   text |-> text],
                  load_font_with_fallbacks(primary_name, fallback_names, custom_paths, text,
                                           heap))

ApplySubsettingIfEnabled ==
    /\ pc = "fonts" /\ call = None
    /\ \E loaded \in LoadedFamilies, enable_subsetting \in BOOLEAN, text \in OptionalTexts :
          Returns([fn |-> "apply_subsetting_if_enabled", family |-> loaded.result.v,
                   before |-> loaded.heap,
                   enable_subsetting |-> enable_subsetting, text |-> text],
                  apply_subsetting_if_enabled(loaded.result.v, enable_subsetting, text,
                                              loaded.heap))

ApplySubsettingToChain ==
    /\ pc = "fonts" /\ call = None
    /\ \E loaded \in LoadedChains, text \in Texts :
          Returns([fn |-> "apply_subsetting_to_chain", chain_family |-> loaded.result.v,
                   before |-> loaded.heap, text |-> text],
                  apply_subsetting_to_chain(loaded.result.v, text, loaded.heap))

PdfNew ==
    /\ pc = "fonts" /\ call = None
    /\ \E font_family \in {None} \cup {Some(n) : n \in FontNames} :
          Returns([fn |-> "Pdf::new", font_family |-> font_family],
                  Pdf_new(font_family, heap))

FontNext ==
    \/ LoadBuiltinFontFamily
    \/ LoadSystemFontFamilySimple
    \/ LoadCustomFontFamily
    \/ LoadFontWithConfig
    \/ LoadFontWithFallbacks
    \/ ApplySubsettingIfEnabled
    \/ ApplySubsettingToChain
    \/ PdfNew

FontSpec == FontInit /\ [][FontNext]_vars

(***************************************************************************)
(* The styling configuration (config.rs).  A toml::Value is a record of a  *)
(* type t and a value of that type; a table maps its keys to values.  A    *)
(* float is written in tenths, as the spacings of the styles are.  The     *)
(* disk maps the paths that exist to what is there.                        *)
(***************************************************************************)
TomlInteger(n) == [t |-> "Integer", integer |-> n]

TomlFloat(tenths) == [t |-> "Float", float |-> tenths]

TomlString(s) == [t |-> "String", str |-> s]

TomlBoolean(b) == [t |-> "Boolean", bool |-> b]

TomlTable(entries) == [t |-> "Table", table |-> entries]

\* Value::get with a key
get(value, key) ==
    IF value.t = "Table" /\ key \in DOMAIN value.table THEN Some(value.table[key]) ELSE None

as_integer(value) == IF value.t = "Integer" THEN Some(value.integer) ELSE None

\* Mutant: an integer is taken for a float.
as_float_of_number(value) ==
    CASE value.t = "Float" -> Some(value.float)
      [] value.t = "Integer" -> Some(10 * value.integer)
      [] OTHER -> None

as_float(value) == IF value.t = "Float" THEN Some(value.float) ELSE None

as_str(value) == IF value.t = "String" THEN Some(value.str) ELSE None

as_bool(value) == IF value.t = "Boolean" THEN Some(value.bool) ELSE None

\* Option::and_then, and the ? operator on an Option
opt_and_then(opt, F(_)) == IF opt = None THEN None ELSE F(opt[1])

\* Option::map
opt_map(opt, F(_)) == IF opt = None THEN None ELSE Some(F(opt[1]))

\* n as u8
as_u8(n) == n % 256

\* BasicTextStyle::new with its eleven fields.
BasicTextStyle_new(size, text_color, before_spacing, after_spacing, alignment, font_family, is_bold, is_italic, underline, strikethrough, background_color) ==
    [size |-> size, text_color |-> text_color,
     before_spacing |-> unwrap_or(before_spacing, 0),
     after_spacing |-> unwrap_or(after_spacing, 0),
     alignment |-> alignment, font_family |-> font_family,
     bold |-> is_bold, italic |-> is_italic, underline |-> underline,
     strikethrough |-> strikethrough, background_color |-> background_color]

Margins(top, right, bottom, left) ==
    [top |-> top, right |-> right, bottom |-> bottom, left |-> left]

\* StyleMatch::default() with the margins and the twelve styles.
StyleMatch_default ==
    [margins |-> Margins(80, 80, 80, 80),
     heading_1 |-> BasicTextStyle_new(14, Some(<<0, 0, 0>>), Some(8), Some(5), Some("Center"),
                                      None, TRUE, FALSE, FALSE, FALSE, None),
     heading_2 |-> BasicTextStyle_new(12, Some(<<0, 0, 0>>), Some(8), Some(5), Some("Left"),
                                      None, TRUE, FALSE, FALSE, FALSE, None),
     heading_3 |-> BasicTextStyle_new(10, Some(<<0, 0, 0>>), Some(8), Some(5), Some("Left"),
                                      None, TRUE, FALSE, FALSE, FALSE, None),
     emphasis |-> BasicTextStyle_new(8, Some(<<0, 0, 0>>), None, None, None, None,
                                     FALSE, TRUE, FALSE, FALSE, None),
     strong_emphasis |-> BasicTextStyle_new(8, Some(<<0, 0, 0>>), None, None, None, None,
                                            TRUE, FALSE, FALSE, FALSE, None),
     code |-> BasicTextStyle_new(8, Some(<<128, 128, 128>>), Some(4), Some(4), None,
                                 Some("Roboto"), FALSE, FALSE, FALSE, FALSE,
                                 Some(<<230, 230, 230>>)),
     block_quote |-> BasicTextStyle_new(8, Some(<<128, 128, 128>>), None, None, None, None,
                                        FALSE, TRUE, FALSE, FALSE, Some(<<245, 245, 245>>)),
     list_item |-> BasicTextStyle_new(8, Some(<<0, 0, 0>>), None, Some(5), None, None,
                                      FALSE, FALSE, FALSE, FALSE, None),
     link |-> BasicTextStyle_new(8, Some(<<128, 128, 128>>), None, None, None, None,
                                 FALSE, FALSE, TRUE, FALSE, None),
     image |-> BasicTextStyle_new(8, Some(<<0, 0, 0>>), None, None, Some("Center"), None,
                                  FALSE, FALSE, FALSE, FALSE, None),
     text |-> BasicTextStyle_new(8, Some(<<0, 0, 0>>), None, None, None, None,
                                 FALSE, FALSE, FALSE, FALSE, None),
     horizontal_rule |-> BasicTextStyle_new(8, Some(<<0, 0, 0>>), None, Some(5), None, None,
                                            FALSE, FALSE, FALSE, FALSE, None)]

parse_color(value, field) ==
    opt_and_then(value, LAMBDA c :
    opt_and_then(get(c, field), LAMBDA color :
    opt_and_then(opt_and_then(get(color, "r"), as_integer), LAMBDA r :
    opt_and_then(opt_and_then(get(color, "g"), as_integer), LAMBDA g :
    opt_and_then(opt_and_then(get(color, "b"), as_integer), LAMBDA b :
    Some(<<as_u8(r), as_u8(g), as_u8(b)>>))))))

TextAlignment(s) ==
    CASE s = "left" -> "Left"
      [] s = "center" -> "Center"
      [] s = "right" -> "Right"
      [] s = "justify" -> "Justify"
      [] OTHER -> "Left"

parse_alignment_of_known(value) ==
    opt_and_then(opt_and_then(value, as_str), LAMBDA s :
        IF s \in {"left", "center", "right", "justify"} THEN Some(TextAlignment(s)) ELSE None)

parse_alignment(value) == opt_map(opt_and_then(value, as_str), TextAlignment)

\* The string is copied and leaked: the same characters.
map_font_family(font) == Some(font)

\* Each field of the style is assigned at most once, from its own key:
\* if let Some(x) = ... { style.field = x; }
parse_style(value, default) ==
    LET style_config == value[1]
        key(k, as(_)) == opt_and_then(get(style_config, k), as)
        parsed_style ==
            [size |-> unwrap_or(opt_map(key("size", as_integer), as_u8), default.size),
             before_spacing |->
                 unwrap_or(key("beforespacing", as_float), default.before_spacing),
             after_spacing |->
                 unwrap_or(key("afterspacing", as_float), default.after_spacing),
             text_color |->
                 unwrap_or(opt_map(parse_color(value, "textcolor"), Some),
                           default.text_color),
             background_color |->
                 unwrap_or(opt_map(parse_color(value, "backgroundcolor"), Some),
                           default.background_color),
             alignment |->
                 unwrap_or(opt_map(parse_alignment(get(style_config, "alignment")), Some),
                           default.alignment),
             font_family |->
                 unwrap_or(opt_map(key("fontfamily", as_str), map_font_family),
                           default.font_family),
             bold |-> unwrap_or(key("bold", as_bool), default.bold),
             italic |-> unwrap_or(key("italic", as_bool), default.italic),
             underline |-> unwrap_or(key("underline", as_bool), default.underline),
             strikethrough |->
                 unwrap_or(key("strikethrough", as_bool), default.strikethrough)]
    IN  IF value = None THEN default ELSE parsed_style

\* The configuration texts, and toml::from_str on them.
ConfigTexts ==
    {"", "this is not valid toml {{{", "[text]\nsize = 12",
     "[margin]\ntop = 20.0\nleft = 5\n[heading.1]\nsize = 18\nbold = false",
     "[link]\nunderline = \"yes\"\n[code]\nfontfamily = \"Courier\"",
     "heading = 3\ntext = \"plain\"", "[text]\nfontfamily = \"Georgia\""}

toml_from_str(config_str) ==
    CASE config_str = "" -> Ok(TomlTable(<<>>))
      [] config_str = "this is not valid toml {{{" -> Err("toml")
      [] config_str = "[text]\nsize = 12" ->
           Ok(TomlTable([text |-> TomlTable([size |-> TomlInteger(12)])]))
      [] config_str = "[margin]\ntop = 20.0\nleft = 5\n[heading.1]\nsize = 18\nbold = false" ->
           Ok(TomlTable(
               [margin |-> TomlTable([top |-> TomlFloat(200), left |-> TomlInteger(5)]),
                heading |-> TomlTable([k \in {"1"} |->
                               TomlTable([size |-> TomlInteger(18),
                                          bold |-> TomlBoolean(FALSE)])])]))
      [] config_str = "[link]\nunderline = \"yes\"\n[code]\nfontfamily = \"Courier\"" ->
           Ok(TomlTable([link |-> TomlTable([underline |-> TomlString("yes")]),
                         code |-> TomlTable([fontfamily |-> TomlString("Courier")])]))
      [] config_str = "heading = 3\ntext = \"plain\"" ->
           Ok(TomlTable([heading |-> TomlInteger(3), text |-> TomlString("plain")]))
      [] config_str = "[text]\nfontfamily = \"Georgia\"" ->
           Ok(TomlTable([text |-> TomlTable([fontfamily |-> TomlString("Georgia")])]))

\* Mutant: a side of the margin table that is absent or not a float is 0.
parse_margins_zero(config, default_style) ==
    LET side(margins, k) == unwrap_or(opt_and_then(get(margins, k), as_float), 0)
        of(margins) ==
            Margins(side(margins, "top"), side(margins, "right"),
                    side(margins, "bottom"), side(margins, "left"))
    IN  unwrap_or(opt_map(get(config, "margin"), of), Margins(0, 0, 0, 0))

\* The margins of parse_config_string.
parse_margins(config, default_style) ==
    LET side(margins, k) == unwrap_or(opt_and_then(get(margins, k), as_float), 80)
        of(margins) ==
            Margins(side(margins, "top"), side(margins, "right"),
                    side(margins, "bottom"), side(margins, "left"))
    IN  unwrap_or(opt_map(get(config, "margin"), of), default_style.margins)

parse_config_string(config_str) ==
    LET default_style == StyleMatch_default
        heading(config, n) == opt_and_then(get(config, "heading"), LAMBDA h : get(h, n))
        styles(config) ==
            [margins |-> parse_margins(config, default_style),
             heading_1 |-> parse_style(heading(config, "1"), default_style.heading_1),
             heading_2 |-> parse_style(heading(config, "2"), default_style.heading_2),
             heading_3 |-> parse_style(heading(config, "3"), default_style.heading_3),
             emphasis |-> parse_style(get(config, "emphasis"), default_style.emphasis),
             strong_emphasis |->
                 parse_style(get(config, "strong_emphasis"), default_style.strong_emphasis),
             code |-> parse_style(get(config, "code"), default_style.code),
             block_quote |-> parse_style(get(config, "block_quote"), default_style.block_quote),
             list_item |-> parse_style(get(config, "list_item"), default_style.list_item),
             link |-> parse_style(get(config, "link"), default_style.link),
             image |-> parse_style(get(config, "image"), default_style.image),
             text |-> parse_style(get(config, "text"), default_style.text),
             horizontal_rule |->
                 parse_style(get(config, "horizontal_rule"), default_style.horizontal_rule)]
        parsed_config(config) == IF config.ok THEN styles(config.v) ELSE StyleMatch_default
    IN  parsed_config(toml_from_str(config_str))

\* ConfigSource
ConfigSource_Default == [kind |-> "Default"]

ConfigSource_File(path) == [kind |-> "File", path |-> path]

ConfigSource_Embedded(content) == [kind |-> "Embedded", content |-> content]

\* What is on the disk d at a path: a file with its content, a directory
\* that can or cannot be written to.
File(content) == [kind |-> "file", content |-> content]

Dir(writable) == [kind |-> "dir", writable |-> writable]

\* fs::read_to_string
read_to_string(d, path) ==
    IF path \in DOMAIN d /\ d[path].kind = "file" THEN Ok(d[path].content) ELSE Err("io")

load_config_from_source(source, d) ==
    LET read_config(config_str) ==
            IF config_str.ok THEN parse_config_string(config_str.v) ELSE StyleMatch_default
    IN  CASE source.kind = "Default" -> StyleMatch_default
          [] source.kind = "File" -> read_config(read_to_string(d, source.path))
          [] source.kind = "Embedded" -> parse_config_string(source.content)

(***************************************************************************)
(* The values parse_style is called on, the configuration sources, and the *)
(* calls.                                                                  *)
(***************************************************************************)
MaxKeys == 2

\* The keys of a style table, with values of the expected type and of
\* other types for each.
StyleKeys ==
    {"size", "beforespacing", "afterspacing", "textcolor", "backgroundcolor", "alignment",
     "fontfamily", "bold", "italic", "underline", "strikethrough", "unknown"}

Rgb(r, g, b) == TomlTable([r |-> r, g |-> g, b |-> b])

ValuesOf(k) ==
    CASE k = "size" ->
           {TomlInteger(12), TomlInteger(300), TomlInteger(-1), TomlString("invalid")}
      [] k = "beforespacing" -> {TomlFloat(20), TomlInteger(2), TomlBoolean(TRUE)}
      [] k = "afterspacing" -> {TomlFloat(15), TomlString("1.5")}
      [] k = "textcolor" ->
           {Rgb(TomlInteger(255), TomlInteger(0), TomlInteger(0)),
            Rgb(TomlString("red"), TomlInteger(0), TomlInteger(0)),
            TomlTable([r |-> TomlInteger(1), g |-> TomlInteger(2)]),
            TomlString("red")}
      [] k = "backgroundcolor" ->
           {Rgb(TomlInteger(0), TomlInteger(256), TomlInteger(7)), TomlInteger(5)}
      [] k = "alignment" ->
           {TomlString("left"), TomlString("center"), TomlString("right"),
            TomlString("justify"), TomlString("diagonal"), TomlString(""), TomlInteger(1)}
      [] k = "fontfamily" -> {TomlString("Georgia"), TomlBoolean(FALSE)}
      [] k = "bold" -> {TomlBoolean(TRUE), TomlBoolean(FALSE), TomlString("not_a_boolean")}
      [] k = "italic" -> {TomlBoolean(TRUE), TomlInteger(1)}
      [] k = "underline" -> {TomlBoolean(TRUE), TomlBoolean(FALSE), TomlString("yes")}
      [] k = "strikethrough" -> {TomlBoolean(TRUE), TomlFloat(10)}
      [] k = "unknown" -> {TomlInteger(1)}

\* The tables with at most n of the keys.
RECURSIVE StyleTables(_, _)
StyleTables(keys, n) ==
    IF keys = {} \/ n = 0
    THEN {<<>>}
    ELSE LET k == CHOOSE x \in keys : TRUE
         IN  StyleTables(keys \ {k}, n)
             \cup {[x \in DOMAIN tbl \cup {k} |-> IF x = k THEN v ELSE tbl[x]] :
                      tbl \in StyleTables(keys \ {k}, n - 1), v \in ValuesOf(k)}

StyleValues ==
    {None, Some(TomlInteger(3)), Some(TomlString("plain"))}
        \cup {Some(TomlTable(tbl)) : tbl \in StyleTables(StyleKeys, MaxKeys)}

StyleDefaults ==
    {StyleMatch_default.text, StyleMatch_default.code, StyleMatch_default.link,
     StyleMatch_default.heading_1}

\* The disks: config.toml is a file of some content or is not there,
\* styles is a directory.
ConfigDisks ==
    {[p \in {"styles"} |-> Dir(TRUE)]}
        \cup {[p \in {"styles", "config.toml"} |->
                  IF p = "styles" THEN Dir(TRUE) ELSE File(content)] :
                 content \in ConfigTexts}

ConfigSources ==
    {ConfigSource_Default, ConfigSource_File("config.toml"), ConfigSource_File("styles"),
     ConfigSource_File("nonexistent.toml")}
        \cup {ConfigSource_Embedded(content) : content \in ConfigTexts}

ConfigInit ==
    /\ disk \in ConfigDisks
    /\ files = <<>>
    /\ heap = <<>>
    /\ call = None
    /\ result = None
    /\ input = <<>>
    /\ style = StyleMatchDefault
    /\ pos = 1
    /\ current_tokens = <<>>
    /\ doc = <<>>
    /\ pc = "config"

ParseStyle ==
    /\ pc = "config" /\ call = None
    /\ \E value \in StyleValues, default \in StyleDefaults :
          Returns([fn |-> "parse_style", value |-> value, default |-> default],
                  ret(parse_style(value, default), heap))

ParseConfigString ==
    /\ pc = "config" /\ call = None
    /\ \E config_str \in ConfigTexts :
          Returns([fn |-> "parse_config_string", config_str |-> config_str],
                  ret(parse_config_string(config_str), heap))

LoadConfigFromSource ==
    /\ pc = "config" /\ call = None
    /\ \E source \in ConfigSources :
          Returns([fn |-> "load_config_from_source", source |-> source],
                  ret(load_config_from_source(source, disk), heap))

ConfigNext ==
    \/ ParseStyle
    \/ ParseConfigString
    \/ LoadConfigFromSource

ConfigSpec == ConfigInit /\ [][ConfigNext]_vars

(***************************************************************************)
(* parse_into_file (lib.rs).  A path is the sequence of its components:    *)
(* <<>> is the empty path, which names the current directory when it is a  *)
(* parent.  The call runs in steps: pc is the statement it is at, input    *)
(* the tokens lexed, style the style loaded, heap the fonts of the Pdf,    *)
(* doc the document rendered.                                              *)
(***************************************************************************)
\* Path::parent
parent(path) == IF path = <<>> THEN None ELSE Some(SubSeq(path, 1, Len(path) - 1))

\* Path::exists on the disk d
exists(d, path) == path \in DOMAIN d

\* Mutant: the output location is not validated.
output_directory_unchecked(d, path) == FALSE

\* The validation of the output path: the parent is not empty and does
\* not exist.
output_directory_missing(d, path) ==
    /\ parent(path) # None
    /\ parent(path)[1] # <<>>
    /\ ~exists(d, parent(path)[1])

MdpError_IoError(message) == [ok |-> FALSE, err |-> "IoError", message |-> message]

MdpError_ParseError(message) == [ok |-> FALSE, err |-> "ParseError", message |-> message]

MdpError_PdfError(message) == [ok |-> FALSE, err |-> "PdfError", message |-> message]

\* The markdown texts and Lexer::parse on them.
Markdowns == {"", "# Test", "Hello world", "![Invalid"}

\* The empty text has no token; an image whose bracket is not closed
\* before the end of the input is an error, and no token is returned.
Lexer_parse(markdown) ==
    CASE markdown = "" -> Ok(<<>>)
      [] markdown = "# Test" -> Ok(<<Heading(<<Text("Test")>>, 1)>>)
      [] markdown = "Hello world" -> Ok(<<Text("Hello world")>>)
      [] markdown = "Café" -> Ok(<<Text("Café")>>)
      [] markdown = "![a](x.png)" -> Ok(<<Image("a", "x.png")>>)
      [] markdown = "![Invalid" -> Err("UnexpectedEndOfInput")

\* lexer.parse().map_err(..): the message is the error as {:?} writes it.
parse_error(e) == MdpError_ParseError(e)

\* The characters of a font family name of a configuration.
chars(font_family) ==
    CASE font_family = "Georgia" -> <<"G", "e", "o", "r", "g", "i", "a">>
      [] font_family = "Courier" -> <<"C", "o", "u", "r", "i", "e", "r">>
      [] font_family = "Roboto" -> <<"R", "o", "b", "o", "t", "o">>

\* Pdf::render_into_document: the document with its font, its margins,
\* its font size and the tokens processed.
render_into_document(pdf) ==
    [font_family |-> pdf.font_family, margins |-> pdf.style.margins,
     font_size |-> pdf.style.text.size, tokens |-> pdf.input]

\* The bytes of the file a document is rendered to.
PdfOf(document) == [pdf |-> document]

\* Document::render_to_file on the disk d: the file is created in a parent
\* directory that can be written to, over a file of that path if there is
\* one, and the document is written to it; a write that fails (written is
\* FALSE) leaves the file created and empty.
render_to_file(d, document, path, written) ==
    LET dir == parent(path)
        created(content) ==
            [p \in DOMAIN d \cup {path} |-> IF p = path THEN File(content) ELSE d[p]]
    IN  CASE dir = None -> [result |-> Err("Is a directory"), disk |-> d]
          [] dir # None /\ ~exists(d, dir[1]) ->
               [result |-> Err("No such file or directory"), disk |-> d]
          [] dir # None /\ exists(d, dir[1]) /\ d[dir[1]].kind # "dir" ->
               [result |-> Err("Not a directory"), disk |-> d]
          [] dir # None /\ exists(d, dir[1]) /\ d[dir[1]].kind = "dir"
               /\ exists(d, path) /\ d[path].kind = "dir" ->
               [result |-> Err("Is a directory"), disk |-> d]
          [] dir # None /\ exists(d, dir[1]) /\ d[dir[1]].kind = "dir"
               /\ ~(exists(d, path) /\ d[path].kind = "dir") /\ ~d[dir[1]].writable ->
               [result |-> Err("Permission denied"), disk |-> d]
          [] OTHER ->
               IF written
               THEN [result |-> Ok(<<>>), disk |-> created(PdfOf(document))]
               ELSE [result |-> Err("No space left on device"), disk |-> created("")]

\* Pdf::render_to_bytes: the bytes of the PDF of the document.
Pdf_render_to_bytes(document) == Ok(<<"%", "P", "D", "F", "-", PdfOf(document)>>)

\* Pdf::render: the message of the error, if there is one.
Pdf_render(d, document, path, written) ==
    LET rendered == render_to_file(d, document, path, written)
    IN  [result |-> IF rendered.result.ok THEN None ELSE Some(rendered.result.err),
         disk |-> rendered.disk]

(***************************************************************************)
(* The disks, paths and configurations parse_into_file is called on, and   *)
(* its steps.                                                              *)
(***************************************************************************)
\* The current directory, which can or cannot be written to, has a
\* directory docs, a directory locked that cannot be written to, a file
\* config.toml, and may have a file docs/out.pdf.
FileDisks ==
    {[p \in {<<>>, <<"docs">>, <<"locked">>, <<"config.toml">>} \cup old |->
         CASE p = <<>> -> Dir(writable)
           [] p = <<"docs">> -> Dir(TRUE)
           [] p = <<"locked">> -> Dir(FALSE)
           [] p = <<"config.toml">> -> File(content)
           [] OTHER -> File("old")] :
        writable \in BOOLEAN,
        content \in {"[text]\nsize = 12", "this is not valid toml {{{"},
        old \in {{}, {<<"docs", "out.pdf">>}}}

OutputPaths ==
    {<<>>, <<"out.pdf">>, <<"docs">>, <<"docs", "out.pdf">>, <<"locked", "out.pdf">>,
     <<"config.toml", "out.pdf">>, <<"missing", "out.pdf">>, <<"missing", "sub", "out.pdf">>,
     <<"docs", "missing", "out.pdf">>}

FileConfigs ==
    {ConfigSource_Default, ConfigSource_File(<<"config.toml">>),
     ConfigSource_Embedded("[text]\nfontfamily = \"Georgia\"")}

\* The systems: one without a font file, one with a font file.
FileSystems == {<<>>, <<FontFiles[3]>>}

FileInit ==
    /\ disk \in FileDisks
    /\ files \in FileSystems
    /\ heap = <<>>
    /\ call = None
    /\ result = None
    /\ input = <<>>
    /\ style = None
    /\ pos = 1
    /\ current_tokens = <<>>
    /\ doc = None
    /\ pc = "file"

\* The call of parse_into_bytes, which has no output path.
ParseIntoBytes ==
    /\ pc = "file" /\ call = None
    /\ \E markdown \in Markdowns, config \in FileConfigs :
          call' = Some([fn |-> "parse_into_bytes", markdown |-> markdown,
                        config |-> config, before |-> disk])
    /\ pc' = "lexer.parse"
    /\ UNCHANGED <<input, style, pos, current_tokens, doc, files, disk, heap, result>>

\* The call and the validation of the output path.
ParseIntoFile ==
    /\ pc = "file" /\ call = None
    /\ \E markdown \in Markdowns, path \in OutputPaths, config \in FileConfigs :
          /\ call' = Some([fn |-> "parse_into_file", markdown |-> markdown, path |-> path,
                           config |-> config, before |-> disk])
          /\ IF output_directory_missing(disk, path)
             THEN /\ result' = Some(MdpError_IoError("Output directory does not exist"))
                  /\ pc' = "return"
             ELSE /\ result' = result
                  /\ pc' = "lexer.parse"
    /\ UNCHANGED <<input, style, pos, current_tokens, doc, files, disk, heap>>

\* Mutant: the tokens lexed before the error are rendered.
LexerParseDegrades ==
    /\ pc = "lexer.parse"
    /\ input' = IF Lexer_parse(call[1].markdown).ok
                THEN Lexer_parse(call[1].markdown).v
                ELSE <<Text(call[1].markdown)>>
    /\ pc' = "load_config_from_source"
    /\ UNCHANGED <<style, pos, current_tokens, doc, files, disk, heap, call, result>>

\* let tokens = lexer.parse().map_err(..)?, in both functions.
LexerParse ==
    /\ pc = "lexer.parse"
    /\ IF Lexer_parse(call[1].markdown).ok
       THEN /\ input' = Lexer_parse(call[1].markdown).v
            /\ result' = result
            /\ pc' = "load_config_from_source"
       ELSE /\ input' = input
            /\ result' = Some(parse_error(Lexer_parse(call[1].markdown).err))
            /\ pc' = "return"
    /\ UNCHANGED <<style, pos, current_tokens, doc, files, disk, heap, call>>

LoadStyle ==
    /\ pc = "load_config_from_source"
    /\ style' = load_config_from_source(call[1].config, disk)
    /\ pc' = "Pdf::new"
    /\ UNCHANGED <<input, pos, current_tokens, doc, files, disk, heap, call, result>>

\* Pdf::new: a panic ends the call.
NewPdf ==
    /\ pc = "Pdf::new"
    /\ LET pdf == Pdf_new(opt_map(style.text.font_family, chars), heap)
       IN  /\ heap' = pdf.heap
           /\ IF pdf.result.ok
              THEN result' = result /\ pc' = "render_into_document"
              ELSE result' = Some(pdf.result) /\ pc' = "return"
    /\ UNCHANGED <<input, style, pos, current_tokens, doc, files, disk, call>>

\* The Pdf that Pdf::new returns for the font families it loaded.
Pdf(families, tokens, style_match) ==
    [input |-> tokens, style |-> style_match, font_family |-> families.font_family,
     code_font_family |-> families.code_font_family]

\* The Pdf is the one Pdf::new made on the empty heap of the call; the
\* document goes to Pdf::render in parse_into_file and to
\* Pdf::render_to_bytes in parse_into_bytes.
RenderIntoDocument ==
    /\ pc = "render_into_document"
    /\ doc' = Some(render_into_document(
                  Pdf(Pdf_new(opt_map(style.text.font_family, chars), <<>>).result.v,
                      input, style)))
    /\ pc' = IF call[1].fn = "parse_into_file" THEN "Pdf::render" ELSE "Pdf::render_to_bytes"
    /\ UNCHANGED <<input, style, pos, current_tokens, files, disk, heap, call, result>>

\* Pdf::render and the return of parse_into_file.
RenderToFile ==
    /\ pc = "Pdf::render"
    /\ \E written \in BOOLEAN :
          LET rendered == Pdf_render(disk, doc[1], call[1].path, written)
          IN  /\ disk' = rendered.disk
              /\ result' = IF rendered.result = None
                           THEN Some(Ok(<<>>))
                           ELSE Some(MdpError_PdfError(rendered.result[1]))
    /\ pc' = "return"
    /\ UNCHANGED <<input, style, pos, current_tokens, doc, files, heap, call>>

\* Pdf::render_to_bytes and the return of parse_into_bytes.
RenderToBytes ==
    /\ pc = "Pdf::render_to_bytes"
    /\ result' = IF Pdf_render_to_bytes(doc[1]).ok
                 THEN Some(Pdf_render_to_bytes(doc[1]))
                 ELSE Some(MdpError_PdfError(Pdf_render_to_bytes(doc[1]).err))
    /\ pc' = "return"
    /\ UNCHANGED <<input, style, pos, current_tokens, doc, files, disk, heap, call>>

FileNext ==
    \/ ParseIntoFile
    \/ ParseIntoBytes
    \/ LexerParse
    \/ LoadStyle
    \/ NewPdf
    \/ RenderIntoDocument
    \/ RenderToFile
    \/ RenderToBytes

FileSpec == FileInit /\ [][FileNext]_vars

(***************************************************************************)
(* The pre-flight validation of validation.rs.                             *)
(***************************************************************************)
ValidationWarning(kind, message) == [kind |-> kind, message |-> message]

\* str::len, in bytes, of the texts the command line is given.
str_len(markdown) ==
    CASE markdown = "# Test" -> 6
      [] markdown = "Café" -> 5
      [] markdown = "![a](x.png)" -> 11
      [] markdown = "![Invalid" -> 9

\* The characters that are not ASCII and not whitespace, ten at most.
detect_unicode_chars(markdown) == IF markdown = "Café" THEN Some(<<"é">>) ELSE None

\* The names a Unicode-capable default font contains. The FontConfig of
\* main.rs has no fallback fonts.
unicode_fonts ==
    {<<"n", "o", "t", "o">>, <<"d", "e", "j", "a", "v", "u">>, <<"l", "i", "b", "e", "r", "a", "t", "i", "o", "n">>, <<"a", "r", "i", "a", "l", " ", "u", "n", "i", "c", "o", "d", "e">>, <<"r", "o", "b", "o", "t", "o">>, <<"s", "f", " ", "p", "r", "o">>,
     <<"s", "e", "g", "o", "e">>}

has_unicode_font(font_config) ==
    /\ font_config # None
    /\ font_config[1].default_font # None
    /\ \E uf \in unicode_fonts :
          str_contains(to_lowercase(font_config[1].default_font[1]), uf)

\* The counts of ``` and ` are even in each text; only "![Invalid" has
\* more [ than ].
check_syntax_issues(markdown) ==
    IF markdown = "![Invalid"
    THEN <<ValidationWarning("SyntaxWarning", "Unmatched square brackets detected")>>
    ELSE <<>>

\* ![alt](path) with a local path that does not exist; "![Invalid" has
\* no ] and no path.
check_image_references(markdown, d) ==
    IF markdown = "![a](x.png)" /\ ~exists(d, <<"x.png">>)
    THEN <<ValidationWarning("MissingImage", "x.png")>>
    ELSE <<>>

validate_conversion(markdown, font_config, output_path, d) ==
    (IF str_len(markdown) > 100000
     THEN <<ValidationWarning("LargeDocument", "Large document")>>
     ELSE <<>>)
    \o (IF detect_unicode_chars(markdown) # None /\ ~has_unicode_font(font_config)
        THEN <<ValidationWarning("UnicodeWithoutFont", "Unicode characters detected")>>
        ELSE <<>>)
    \o (IF output_path # None /\ output_directory_missing(d, output_path[1])
        THEN <<ValidationWarning("SyntaxWarning", "Output directory does not exist")>>
        ELSE <<>>)
    \o check_syntax_issues(markdown)
    \o check_image_references(markdown, d)

(***************************************************************************)
(* The command line of bin/main.rs: run, called by main on the matches of  *)
(* a command line with a path or a string.                                 *)
(***************************************************************************)
AppError_FileReadError(e) == [ok |-> FALSE, err |-> "FileReadError", message |-> e]

AppError_ConversionError(message) ==
    [ok |-> FALSE, err |-> "ConversionError", message |-> message]

AppError_PathError(message) == [ok |-> FALSE, err |-> "PathError", message |-> message]

\* Without the feature fetch the command has no argument url.
get_markdown_input(matches, d) ==
    IF matches.path # None
    THEN IF read_to_string(d, matches.path[1]).ok
         THEN read_to_string(d, matches.path[1])
         ELSE AppError_FileReadError(read_to_string(d, matches.path[1]).err)
    ELSE IF matches.string # None
         THEN Ok(matches.string[1])
         ELSE AppError_ConversionError("No input provided")

\* std::env::current_dir: the current directory, <<>>, if it is there.
current_dir(d) == IF exists(d, <<>>) THEN Ok(<<>>) ELSE Err("No such file or directory")

get_output_path(matches, d) ==
    IF ~current_dir(d).ok
    THEN AppError_PathError(current_dir(d).err)
    ELSE Ok(current_dir(d).v \o unwrap_or(matches.output, <<"output.pdf">>))

Verbosity(matches) ==
    IF matches.quiet THEN "Quiet" ELSE IF matches.verbose THEN "Verbose" ELSE "Normal"

\* The font configuration of the arguments default-font and code-font.
font_config_of(matches) ==
    IF matches.default_font # None \/ matches.code_font # None
    THEN Some([default_font |-> matches.default_font, code_font |-> matches.code_font,
               enable_subsetting |-> TRUE])
    ELSE None

\* What eprintln! writes of the warnings, for a verbosity that is not Quiet.
shown_warnings(verbosity, warnings) ==
    IF warnings # <<>>
    THEN (IF verbosity = "Verbose" THEN <<"Pre-flight validation:">> ELSE <<>>)
         \o [i \in 1..Len(warnings) |-> warnings[i].message] \o <<"">>
    ELSE IF verbosity = "Verbose" THEN <<"Pre-flight validation passed">> ELSE <<>>

\* What println! writes at the end of a dry run.
dry_run_complete(warnings) ==
    <<"Dry-run validation complete. No PDF generated.",
      IF warnings = <<>>
      THEN "No issues detected. Run without --dry-run to generate PDF."
      ELSE "warning(s) found. Review above and run without --dry-run to generate PDF anyway.">>

\* Mutant: a run that is not a dry run stops on warnings too.
run_validation_blocking(c, d) ==
    LET warnings ==
            validate_conversion(c.markdown[1], c.font_config, Some(c.output_path[1]), d)
        checked == [c EXCEPT !.calls = Append(@, "validate_conversion"),
                             !.warnings = Some(warnings)]
    IN  IF c.matches.dry_run \/ warnings # <<>>
        THEN [call |-> checked,
              result |-> Some(IF warnings = <<>>
                              THEN Ok(<<>>)
                              ELSE AppError_ConversionError("validation warnings")),
              pc |-> "exit"]
        ELSE [call |-> checked, result |-> None, pc |-> "generate"]

\* The validation checks of run and the end of a dry run: the frame of
\* run after them, what run returns if it returns, and where it goes on.
run_validation(c, d) ==
    LET verbosity == Verbosity(c.matches)
        warnings ==
            validate_conversion(c.markdown[1], c.font_config, Some(c.output_path[1]), d)
        checked == [c EXCEPT !.calls = Append(@, "validate_conversion"),
                             !.warnings = Some(warnings)]
        shown == [checked EXCEPT !.stderr = @ \o shown_warnings(verbosity, warnings)]
    IN  IF verbosity # "Quiet"
        THEN IF c.matches.dry_run
             THEN [call |-> [shown EXCEPT !.stdout = @ \o dry_run_complete(warnings)],
                   result |-> Some(Ok(<<>>)), pc |-> "exit"]
             ELSE [call |-> shown, result |-> None, pc |-> "generate"]
        ELSE IF c.matches.dry_run
             THEN [call |-> checked,
                   result |-> Some(IF warnings = <<>>
                                   THEN Ok(<<>>)
                                   ELSE AppError_ConversionError("validation warnings")),
                   pc |-> "exit"]
             ELSE [call |-> c, result |-> None, pc |-> "generate"]

\* What eprintln! writes before the PDF is generated.
generating(c) ==
    IF Verbosity(c.matches) = "Verbose"
    THEN <<"Generating PDF...">>
         \o (IF c.font_config # None /\ c.font_config[1].default_font # None
             THEN <<"Font">>
             ELSE <<>>)
    ELSE <<>>

\* What println! writes after the PDF is saved; fs::metadata is Ok on
\* the file written.
saved(c, d) ==
    IF Verbosity(c.matches) # "Quiet"
    THEN <<"Successfully saved PDF">>
         \o (IF Verbosity(c.matches) = "Verbose" /\ exists(d, c.output_path[1])
             THEN <<"Size">>
             ELSE <<>>)
    ELSE <<>>

(***************************************************************************)
(* The command lines, the disks, and the steps of run.                     *)
(***************************************************************************)
ArgMatches(path, string, output, default_font, code_font, quiet, verbose, dry_run) ==
    [path |-> path, string |-> string, output |-> output, default_font |-> default_font,
     code_font |-> code_font, quiet |-> quiet, verbose |-> verbose, dry_run |-> dry_run]

\* path and string conflict and main asks for one of them.
CliInputs ==
    {[path |-> Some(p), string |-> None] : p \in {<<"doc.md">>, <<"missing.md">>}}
        \cup {[path |-> None, string |-> Some(s)] :
                 s \in {"# Test", "Café", "![a](x.png)", "![Invalid"}}

CliOutputs == {None, Some(<<"docs", "out.pdf">>), Some(<<"missing", "out.pdf">>)}

CliFonts ==
    {[default_font |-> None, code_font |-> None],
     [default_font |-> Some(<<"G", "e", "o", "r", "g", "i", "a">>), code_font |-> None],
     [default_font |-> Some(<<"N", "o", "t", "o", " ", "S", "a", "n", "s">>), code_font |-> None],
     [default_font |-> None, code_font |-> Some(<<"C", "o", "u", "r", "i", "e", "r">>)]}

\* quiet and verbose conflict.
Matches ==
    {m \in {ArgMatches(i.path, i.string, output, f.default_font, f.code_font, quiet,
                       verbose, dry_run) :
               i \in CliInputs, output \in CliOutputs, f \in CliFonts,
               quiet \in BOOLEAN, verbose \in BOOLEAN, dry_run \in BOOLEAN} :
        ~(m.quiet /\ m.verbose)}

\* The current directory, which can or cannot be written to, with a
\* directory docs and a file doc.md; and a current directory that is gone.
CliDisks ==
    {[p \in {<<>>, <<"docs">>, <<"doc.md">>} |->
         CASE p = <<>> -> Dir(writable)
           [] p = <<"docs">> -> Dir(TRUE)
           [] OTHER -> File("# Test")] : writable \in BOOLEAN}
        \cup {[p \in {} |-> Dir(TRUE)]}

CliInit ==
    /\ disk \in CliDisks
    /\ files \in FileSystems
    /\ heap = <<>>
    /\ call = None
    /\ result = None
    /\ input = <<>>
    /\ style = None
    /\ pos = 1
    /\ current_tokens = <<>>
    /\ doc = None
    /\ pc = "cli"

\* run up to the validation checks: the verbosity, the input, the output
\* path and the font configuration.
Run ==
    /\ pc = "cli" /\ call = None
    /\ \E matches \in Matches :
          LET markdown == get_markdown_input(matches, disk)
              output_path == get_output_path(matches, disk)
          IN  /\ call' = Some([fn |-> "run", matches |-> matches,
                               markdown |-> IF markdown.ok THEN Some(markdown.v) ELSE None,
                               output_path |-> IF markdown.ok /\ output_path.ok
                                               THEN Some(output_path.v)
                                               ELSE None,
                               font_config |-> font_config_of(matches),
                               warnings |-> None, calls |-> <<>>,
                               stdout |-> <<>>, stderr |-> <<>>])
              /\ IF ~markdown.ok
                 THEN result' = Some(markdown) /\ pc' = "exit"
                 ELSE IF ~output_path.ok
                      THEN result' = Some(output_path) /\ pc' = "exit"
                      ELSE result' = result /\ pc' = "validate"
    /\ UNCHANGED <<input, style, pos, current_tokens, doc, files, disk, heap>>

RunValidation ==
    /\ pc = "validate"
    /\ call' = Some(run_validation(call[1], disk).call)
    /\ result' = run_validation(call[1], disk).result
    /\ pc' = run_validation(call[1], disk).pc
    /\ UNCHANGED <<input, style, pos, current_tokens, doc, files, disk, heap>>

\* The call of parse_into_file by run, and its validation of the output
\* path.
RunParseIntoFile ==
    /\ pc = "generate"
    /\ call' = Some([fn |-> "parse_into_file", markdown |-> call[1].markdown[1],
                     path |-> call[1].output_path[1], config |-> ConfigSource_Default,
                     font_config |-> call[1].font_config, before |-> disk,
                     caller |-> [call[1] EXCEPT !.calls = Append(@, "parse_into_file"),
                                                !.stderr = @ \o generating(call[1])]])
    /\ IF output_directory_missing(disk, call[1].output_path[1])
       THEN /\ result' = Some(MdpError_IoError("Output directory does not exist"))
            /\ pc' = "return"
       ELSE /\ result' = result
            /\ pc' = "lexer.parse"
    /\ UNCHANGED <<input, style, pos, current_tokens, doc, files, disk, heap>>

\* The return of parse_into_file to run: .map_err(..)?, then the lines
\* about the file saved; a panic of the library is not caught.
RunReturns ==
    /\ pc = "return" /\ call[1].fn = "parse_into_file"
    /\ IF result[1].ok
       THEN /\ call' = Some([call[1].caller EXCEPT
                                 !.stdout = @ \o saved(call[1].caller, disk)])
            /\ result' = Some(Ok(<<>>))
       ELSE /\ call' = Some(call[1].caller)
            /\ result' = IF result[1].err = "panic"
                         THEN result
                         ELSE Some(AppError_ConversionError(result[1].err))
    /\ pc' = "exit"
    /\ UNCHANGED <<input, style, pos, current_tokens, doc, files, disk, heap>>

CliNext ==
    \/ Run
    \/ RunValidation
    \/ RunParseIntoFile
    \/ LexerParse
    \/ LoadStyle
    \/ NewPdf
    \/ RenderIntoDocument
    \/ RenderToFile
    \/ RunReturns

CliSpec == CliInit /\ [][CliNext]_vars

(***************************************************************************)
(* Helpers for stating the claims.                                         *)
(***************************************************************************)
Prefix(path, k) == SubSeq(path, 1, k)

\* The token with the given id.
RECURSIVE TokenIn(_, _)
TokenIn(tokens, path) ==
    IF Len(path) = 1
    THEN tokens[path[1]]
    ELSE TokenIn(tokens[path[1]].content, Tail(path))

TokenAt(path) == TokenIn(input, path)

IsParagraph(e, by) == e.el = "Paragraph" /\ e.by = by

\* The src of everything pushed, in the order it was pushed: Breaks and the
\* runs of the paragraphs.
RECURSIVE OutSrcs(_)
OutSrcs(d) ==
    IF d = <<>>
    THEN <<>>
    ELSE LET e == Head(d)
         IN  (IF e.el = "Break"
              THEN <<e.src>>
              ELSE [i \in 1..Len(e.runs) |-> e.runs[i].src])
             \o OutSrcs(Tail(d))

\* Tokens p and q lie in different subtrees and p comes first in the token
\* tree (neither contains the other).
Earlier(p, q) ==
    \E k \in 1..Len(p) :
        /\ k <= Len(q)
        /\ \A j \in 1..(k - 1) : p[j] = q[j]
        /\ p[k] < q[k]

(***************************************************************************)
(* C1: inline-buffer discipline.                                            *)
(***************************************************************************)
\* The block tokens the claim names.
IsBlockToken(t) ==
    \/ t.type \in {"Heading", "ListItem", "HorizontalRule", "Newline"}
    \/ t.type = "Code" /\ contains(t.text, "\n")

\* The "of" of the paragraphs pushed by flush_paragraph, in order.
FlushedOf(d) ==
    LET ps == SelectSeq(d, LAMBDA e : IsParagraph(e, "flush_paragraph"))
    IN  [i \in 1..Len(ps) |-> ps[i].of]

\* The top-level position an element was pushed for.
TopOf(e) == IF e.el = "Break" THEN e.src[1] ELSE e.of[1][1]

\* C1: at every point of the walk the tokens buffered so far are, in order
\* and each exactly once, the tokens of the paragraphs already flushed
\* followed by the buffer; a block token leaves the buffer empty; every
\* flushed paragraph holds one maximal run of consecutive inline tokens
\* (it starts after a block token or at the start, and ends before a block
\* token or at the end) and is pushed before any element of the block that
\* follows it; the buffer is empty when rendering ends.
C1_BufferDiscipline ==
    LET seen == SubSeq(input, 1, pos - 1)
        flushed == FlushedOf(doc)
    IN  /\ Concat(flushed) \o Ids(current_tokens)
              = Ids(SelectSeq(seen, LAMBDA t : ~IsBlockToken(t)))
        /\ (pos > 1 /\ IsBlockToken(input[pos - 1])) => current_tokens = <<>>
        /\ \A n \in 1..Len(flushed) :
              LET of == flushed[n]
                  first == of[1][1]
                  last == of[Len(of)][1]
              IN  /\ of # <<>>
                  /\ of = [i \in 1..(last - first + 1) |-> <<first + i - 1>>]
                  /\ first = 1 \/ IsBlockToken(input[first - 1])
                  /\ IF last < Len(input) THEN IsBlockToken(input[last + 1]) ELSE pc = "done"
        /\ \A i, j \in 1..Len(doc) : i < j => TopOf(doc[i]) <= TopOf(doc[j])
        /\ pc = "done" => current_tokens = <<>>

\* Two inline tokens were buffered and flushed as one paragraph ahead of a
\* heading, and rendering has ended.
C1_Witness ==
    /\ pc = "done"
    /\ \E i, j \in 1..Len(doc) :
          /\ i < j
          /\ IsParagraph(doc[i], "flush_paragraph")
          /\ Len(doc[i].of) = 2
          /\ IsParagraph(doc[j], "render_heading")

(***************************************************************************)
(* C2: order of the output.                                                *)
(***************************************************************************)
\* Token p is pushed before token q under the rule of render_list_item:
\* p and q lie in different subtrees, and at the point where their paths
\* part, inside a ListItem's content an inline token goes before a nested
\* ListItem, and otherwise the earlier token goes first.
PushedFirst(p, q) ==
    \E k \in 1..Len(p) :
        /\ k <= Len(q)
        /\ \A j \in 1..(k - 1) : p[j] = q[j]
        /\ p[k] # q[k]
        /\ LET a == TokenAt(Prefix(p, k)).type = "ListItem"
               b == TokenAt(Prefix(q, k)).type = "ListItem"
           IN  IF k > 1 /\ TokenAt(Prefix(p, k - 1)).type = "ListItem" /\ a # b
               THEN b
               ELSE p[k] < q[k]

\* C2 as stated: nothing is pushed for a later token before something pushed
\* for an earlier token, at the top level and inside a ListItem's content.
C2_TokenOrder ==
    LET out == OutSrcs(doc)
    IN  \A i, j \in 1..Len(out) : i < j => ~Earlier(out[j], out[i])

\* C2 as amended: the output follows the token order, except that inside a
\* ListItem's content the inline tokens are pushed (in their order, in the
\* item's paragraph) before the nested ListItems (in their order).
C2_TokenOrderAmended ==
    LET out == OutSrcs(doc)
    IN  \A i, j \in 1..Len(out) : i < j => ~PushedFirst(out[j], out[i])

\* A link that follows a nested ListItem in an item's content was pushed
\* before the nested item's paragraph.
C2_Witness ==
    /\ pc = "done"
    /\ LET out == OutSrcs(doc)
       IN  \E i, j \in 1..Len(out) :
              /\ i < j
              /\ Earlier(out[j], out[i])
              /\ TokenAt(out[i]).type = "Link"
              /\ TokenAt(out[j]).type = "ListItem"

(***************************************************************************)
(* C3: a fenced code block of a single line.                               *)
(***************************************************************************)
\* C3: a top-level Code with a language and no newline is pushed as
\* Break(code.before_spacing), one code paragraph of 4 spaces and the body,
\* Break(code.after_spacing), and is in no text paragraph.
C3_SingleLineFence ==
    pc = "done" =>
        \A i \in 1..Len(input) :
            LET t == input[i]
            IN  (t.type = "Code" /\ t.lang # <<>> /\ ~contains(t.text, "\n")) =>
                    /\ \E j \in 1..(Len(doc) - 2) :
                          /\ doc[j] = Break(style.code.before_spacing, t.id)
                          /\ IsParagraph(doc[j + 1], "render_code_block")
                          /\ Len(doc[j + 1].runs) = 1
                          /\ doc[j + 1].runs[1].text = <<" ", " ", " ", " ">> \o t.text
                          /\ doc[j + 2] = Break(style.code.after_spacing, t.id)
                    /\ \A j \in 1..Len(doc) :
                          IsParagraph(doc[j], "flush_paragraph") =>
                              \A n \in 1..Len(doc[j].of) : doc[j].of[n] # t.id

(***************************************************************************)
(* C4: tables.                                                             *)
(***************************************************************************)
\* C4: a top-level Table flushes the buffer (no text paragraph holds tokens
\* from before and after it) and pushes one grid element for it.
C4_TableIsRendered ==
    pc = "done" =>
        \A i \in 1..Len(input) :
            input[i].type = "Table" =>
                /\ \E j \in 1..Len(doc) : doc[j].el = "Table" /\ doc[j].src = input[i].id
                /\ \A j \in 1..Len(doc) :
                      IsParagraph(doc[j], "flush_paragraph") =>
                          \A n \in 1..Len(doc[j].of) : doc[j].of[n] # input[i].id

(***************************************************************************)
(* C5: block quotes.                                                       *)
(***************************************************************************)
\* C5: every top-level BlockQuote has a paragraph with a run of its text.
C5_BlockQuoteIsRendered ==
    pc = "done" =>
        \A i \in 1..Len(input) :
            input[i].type = "BlockQuote" =>
                \E j \in 1..Len(doc) :
                    /\ doc[j].el = "Paragraph"
                    /\ \E n \in 1..Len(doc[j].runs) :
                          /\ doc[j].runs[n].src = input[i].id
                          /\ doc[j].runs[n].text = input[i].text

(***************************************************************************)
(* C6: HTML comments.                                                      *)
(***************************************************************************)
\* The tokens without the HtmlComment tokens, at every depth.
RECURSIVE WithoutComments(_)
WithoutComments(tokens) ==
    LET kept == SelectSeq(tokens, LAMBDA t : t.type # "HtmlComment")
    IN  [i \in 1..Len(kept) |->
            IF "content" \in DOMAIN kept[i]
            THEN [kept[i] EXCEPT !.content = WithoutComments(@)]
            ELSE kept[i]]

\* The elements without their history fields.
Elements(d) ==
    [i \in 1..Len(d) |->
        IF d[i].el = "Break"
        THEN [el |-> "Break", size |-> d[i].size]
        ELSE [el |-> "Paragraph",
              runs |-> [n \in 1..Len(d[i].runs) |->
                          [text |-> d[i].runs[n].text,
                           style |-> d[i].runs[n].style,
                           link |-> d[i].runs[n].link]]]]

\* C6: the elements pushed for the input are those pushed for the input
\* with its HtmlComment tokens removed.
C6_CommentsAddNothing ==
    pc = "done" => Elements(doc) = Elements(process_tokens(WithoutComments(input)))

(***************************************************************************)
(* C7: the decoration cascade.                                             *)
(***************************************************************************)
\* Some token that encloses the token at path satisfies P.
HasEnclosing(path, P(_)) == \E k \in 1..(Len(path) - 1) : P(TokenAt(Prefix(path, k)))

\* The bold and italic of the style a paragraph's inline content starts from.
BaseOf(e) ==
    IF e.by = "render_heading"
    THEN LET hs == heading_style(TokenAt(e.of[1]).level)
         IN  [bold |-> hs.bold, italic |-> hs.italic]
    ELSE [bold |-> FALSE, italic |-> FALSE]

\* C7: every run of a Text token whose enclosing Emphasis levels are in
\* {1,2,3} is bold iff the base is bold or an Emphasis of level 2 or 3 or a
\* StrongEmphasis encloses it, and italic iff the base is italic or an
\* Emphasis of level 1 or 3 encloses it.
C7_DecorationCascade ==
    \A j \in 1..Len(doc) :
        doc[j].el = "Paragraph" =>
            \A n \in 1..Len(doc[j].runs) :
                LET r == doc[j].runs[n]
                    base == BaseOf(doc[j])
                    levelsOk == ~HasEnclosing(r.src,
                                    LAMBDA a : a.type = "Emphasis" /\ a.level \notin {1, 2, 3})
                    boldAbove == HasEnclosing(r.src,
                                    LAMBDA a : \/ a.type = "Emphasis" /\ a.level \in {2, 3}
                                               \/ a.type = "StrongEmphasis")
                    italicAbove == HasEnclosing(r.src,
                                    LAMBDA a : a.type = "Emphasis" /\ a.level \in {1, 3})
                IN  (TokenAt(r.src).type = "Text" /\ levelsOk) =>
                        /\ r.style.bold = (base.bold \/ boldAbove)
                        /\ r.style.italic = (base.italic \/ italicAbove)

\* Emphasis{2, [Text, Emphasis{1, [Text]}, Text]} was flushed as a paragraph
\* of three runs: bold, bold and italic, bold.
C7_Witness ==
    /\ pc = "done"
    /\ input = WithIds(<<Emphasis(2, <<T, Emphasis(1, <<T>>), T>>)>>, <<>>)
    /\ Len(doc) = 3
    /\ [n \in 1..Len(doc[2].runs) |-> <<doc[2].runs[n].style.bold, doc[2].runs[n].style.italic>>]
          = <<<<TRUE, FALSE>>, <<TRUE, TRUE>>, <<TRUE, FALSE>>>>

(***************************************************************************)
(* C8: StrongEmphasis and Emphasis of level 2.                             *)
(***************************************************************************)
\* The tokens with every StrongEmphasis(c) replaced by Emphasis{2, c}.
RECURSIVE StrongAsEmphasis(_)
StrongAsEmphasis(tokens) ==
    [i \in 1..Len(tokens) |->
        LET t == tokens[i]
            c == IF "content" \in DOMAIN t
                 THEN [t EXCEPT !.content = StrongAsEmphasis(@)]
                 ELSE t
        IN  IF c.type = "StrongEmphasis"
            THEN Emphasis(2, c.content) @@ [id |-> c.id]
            ELSE c]

\* The tokens with every Emphasis{2, c} replaced by StrongEmphasis(c).
RECURSIVE EmphasisAsStrong(_)
EmphasisAsStrong(tokens) ==
    [i \in 1..Len(tokens) |->
        LET t == tokens[i]
            c == IF "content" \in DOMAIN t
                 THEN [t EXCEPT !.content = EmphasisAsStrong(@)]
                 ELSE t
        IN  IF c.type = "Emphasis" /\ c.level = 2
            THEN StrongEmphasis(c.content) @@ [id |-> c.id]
            ELSE c]

\* C8: replacing StrongEmphasis by Emphasis of level 2, or the reverse,
\* anywhere in the input leaves the pushed elements and runs unchanged.
C8_StrongIsEmphasis2 ==
    pc = "done" =>
        /\ doc = process_tokens(StrongAsEmphasis(input))
        /\ doc = process_tokens(EmphasisAsStrong(input))

\* A heading whose content nests a StrongEmphasis and an Emphasis of level 2
\* was rendered.
C8_Witness ==
    /\ pc = "done"
    /\ Len(input) = 1
    /\ input[1].type = "Heading"
    /\ Len(input[1].content) = 1
    /\ input[1].content[1].type = "StrongEmphasis"
    /\ Len(input[1].content[1].content) = 3
    /\ input[1].content[1].content[2].type = "Emphasis"
    /\ input[1].content[1].content[2].level = 2
    /\ Len(doc[2].runs) = 3

(***************************************************************************)
(* C9: the style of a heading.                                             *)
(***************************************************************************)
Clamp(level) == IF level < 1 THEN 1 ELSE IF level > 3 THEN 3 ELSE level

HeadingStyleNo(n) ==
    CASE n = 1 -> style.heading_1
      [] n = 2 -> style.heading_2
      [] n = 3 -> style.heading_3

\* The heading token t was pushed with the spacing, size, decorations and
\* colour of hs.
PushedWith(t, hs) ==
    \E j \in 1..(Len(doc) - 2) :
        /\ doc[j] = Break(hs.before_spacing, t.id)
        /\ IsParagraph(doc[j + 1], "render_heading")
        /\ doc[j + 1].of = <<t.id>>
        /\ \A n \in 1..Len(doc[j + 1].runs) :
              LET r == doc[j + 1].runs[n]
              IN  /\ r.style.font_size = Some(hs.size)
                  /\ (TokenAt(r.src).type = "Text" /\ Len(r.src) = 2) =>
                         r.style = [font_size |-> Some(hs.size), bold |-> hs.bold,
                                    italic |-> hs.italic, color |-> hs.text_color]
        /\ doc[j + 2] = Break(hs.after_spacing, t.id)

\* C9 as stated: the level is clamped to [1,3] for every level.
C9_LevelClamped ==
    pc = "done" =>
        \A i \in 1..Len(input) :
            input[i].type = "Heading" =>
                PushedWith(input[i], HeadingStyleNo(Clamp(input[i].level)))

\* C9 as amended: level 1 uses heading_1, level 2 uses heading_2 and every
\* other level, 0 as well as 3 and above, uses heading_3.
C9_LevelSelectsStyle ==
    pc = "done" =>
        \A i \in 1..Len(input) :
            input[i].type = "Heading" =>
                PushedWith(input[i],
                           HeadingStyleNo(IF input[i].level \in {1, 2} THEN input[i].level ELSE 3))

\* A heading of level 0 was pushed with heading_3, and not with heading_1.
C9_Witness ==
    /\ pc = "done"
    /\ Len(input) = 1
    /\ input[1].type = "Heading"
    /\ input[1].level = 0
    /\ PushedWith(input[1], style.heading_3)
    /\ ~PushedWith(input[1], style.heading_1)

(***************************************************************************)
(* C10: the indentation and marker of list items.                          *)
(***************************************************************************)
Spaces(n) == [i \in 1..n |-> " "]

Digits == <<"0", "1", "2", "3", "4", "5", "6", "7", "8", "9">>

IsDigit(c) == \E d \in 1..10 : Digits[d] = c

\* The number a sequence of decimal digits denotes.
RECURSIVE DecimalValue(_)
DecimalValue(s) ==
    IF s = <<>>
    THEN 0
    ELSE 10 * DecimalValue(SubSeq(s, 1, Len(s) - 1))
         + (CHOOSE d \in 0..9 : Digits[d + 1] = s[Len(s)])

\* The ids of the ListItems reached from the top level through ListItems only.
RECURSIVE ListItemIds(_)
ListItemIds(tokens) ==
    UNION {IF tokens[i].type = "ListItem"
           THEN {tokens[i].id} \cup ListItemIds(tokens[i].content)
           ELSE {} : i \in 1..Len(tokens)}

Underlined(st) == "underline" \in DOMAIN st /\ st.underline

\* C11: every run pushed for a Link token is a clickable run with the
\* token's text and url, coloured with link.text_color when there is one,
\* and underlined; and every top-level Link has such a run once rendering
\* is done.
C11_LinkUnderlined ==
    /\ \A j \in 1..Len(doc) :
          doc[j].el = "Paragraph" =>
              \A n \in 1..Len(doc[j].runs) :
                  LET r == doc[j].runs[n]
                      t == TokenAt(r.src)
                  IN  t.type = "Link" =>
                          /\ r.link = Some(t.url)
                          /\ r.text = t.text
                          /\ style.link.text_color # None =>
                                 r.style.color = style.link.text_color
                          /\ Underlined(r.style)
    /\ pc = "done" =>
          \A i \in 1..Len(input) :
              input[i].type = "Link" =>
                  \E j \in 1..Len(doc) :
                      /\ doc[j].el = "Paragraph"
                      /\ \E n \in 1..Len(doc[j].runs) : doc[j].runs[n].src = input[i].id

(***************************************************************************)
(* C12: images.                                                            *)
(***************************************************************************)
\* C12: every top-level Image has, once rendering is done, a run of its alt
\* text in a paragraph.
C12_ImageAltText ==
    pc = "done" =>
        \A i \in 1..Len(input) :
            input[i].type = "Image" =>
                \E j \in 1..Len(doc) :
                    /\ doc[j].el = "Paragraph"
                    /\ \E n \in 1..Len(doc[j].runs) :
                          /\ doc[j].runs[n].src = input[i].id
                          /\ doc[j].runs[n].text = input[i].text

(***************************************************************************)
(* Claims about the font functions, under FontSpec.                        *)
(***************************************************************************)
\* The call of the function fn has returned.
Called(fn) == call # None /\ call[1].fn = fn

\* C13: font resolution for the renderer never fails: load_builtin_font_family
\* returns Ok for every name on every system, and Pdf::new never panics.
\* Violated: with no usable font file load_system_font_bytes_fallback returns
\* Err(InvalidFont), load_builtin_font_family passes it on and Pdf::new
\* panics on it.
C13_FontResolutionNeverFails ==
    Called("load_builtin_font_family") \/ Called("Pdf::new") => result[1].ok

\* C14: load_font_with_config resolves a built-in name to the built-in
\* family first, whatever the custom paths and fallback fonts of the
\* configuration, and returns it without subsetting.
\* Violated: the fallback fonts and the custom paths are tried before the
\* name is looked at, and what they load is subsetted.
C14_BuiltinFirst ==
    Called("load_font_with_config") /\ is_builtin_name(call[1].name) =>
        LET builtin == load_builtin_font_family(call[1].name, <<>>)
        IN  result[1] = builtin.result /\ heap = builtin.heap

\* The subsetting of a family leaves it alone: the subsetting is disabled,
\* the text is absent or empty, or the data of the regular face cannot be
\* read or subsetted.
Untouched(c) ==
    \/ ~c.enable_subsetting
    \/ c.text = None
    \/ c.text[1] = <<>>
    \/ c.before[c.family.regular.data].subset # "ok"

\* C15: apply_subsetting_if_enabled never returns an Err; it returns the
\* family it was given, and allocates nothing, when the subsetting is
\* disabled, the text is absent or empty, the font data cannot be read or
\* the subsetter fails; otherwise the four faces are the regular face on a
\* new buffer, the subset of its data to the text.
C15_SubsettingNeverFails ==
    Called("apply_subsetting_if_enabled") =>
        LET c == call[1]
            regular == result[1].v.regular
        IN  /\ result[1].ok
            /\ Untouched(c) => result[1].v = c.family /\ heap = c.before
            /\ ~Untouched(c) =>
                  /\ result[1].v # c.family
                  /\ result[1].v = cloned_family(regular)
                  /\ regular.data = Len(c.before) + 1
                  /\ heap = Append(c.before,
                                   subset_font(c.before[c.family.regular.data], c.text[1]).v)

\* The subsetter failed on a family with subsetting enabled and a text, and
\* the family came back as it was.
C15_Witness ==
    /\ Called("apply_subsetting_if_enabled")
    /\ call[1].enable_subsetting
    /\ call[1].text = Some(<<"a", "z">>)
    /\ call[1].before[call[1].family.regular.data].subset = "fails"
    /\ result[1] = Ok(call[1].family)

\* C16: apply_subsetting_to_chain returns Ok when the subsetting of a font
\* of a chain fails, the font kept as it is.
\* Violated: subset_single_font passes the Err of get_data and of the
\* subsetter on, subset_chain and apply_subsetting_to_chain pass it on.
C16_ChainFallsBack == Called("apply_subsetting_to_chain") => result[1].ok

\* The four faces of a family reference one buffer.
OneBuffer(family) ==
    /\ family.bold.data = family.regular.data
    /\ family.italic.data = family.regular.data
    /\ family.bold_italic.data = family.regular.data

\* The call of load_custom_font_family did not load the family from the
\* files of its variants: it built it from a single file.
FromSingleFile ==
    /\ Called("load_custom_font_family")
    /\ ~load_font_family_with_variants(call[1].name, call[1].custom_paths, <<>>).result.ok

\* C17: the four faces of a family built from a single font file (by
\* load_builtin_font_family, by load_system_font_family_simple, by
\* load_custom_font_family when it does not find the files of the variants)
\* reference the same buffer, and the bytes are in no other buffer.
C17_SharedBuffer ==
    \/ Called("load_builtin_font_family")
    \/ Called("load_system_font_family_simple")
    \/ FromSingleFile
    => (result[1].ok => OneBuffer(result[1].v) /\ Len(heap) = 1)

\* load_custom_font_family built the family from a single file of a custom
\* path, which no system font would have given.
C17_Witness ==
    /\ FromSingleFile
    /\ result[1].ok
    /\ ~load_system_font_family_simple(call[1].name, <<>>).result.ok
    /\ heap[result[1].v.regular.data].id = "GeorgiaPro"

\* The documents that are not TOML.
NotToml == {"this is not valid toml {{{"}

\* What load_config_from_source is given to read on the disk d: nothing
\* for Default and for a file that cannot be read.
ContentOf(source, d) ==
    CASE source.kind = "Embedded" -> Some(source.content)
      [] source.kind = "File" /\ source.path \in DOMAIN d /\ d[source.path].kind = "file" ->
           Some(d[source.path].content)
      [] OTHER -> None

\* C18: load_config_from_source always returns a StyleMatch, and for the
\* Default source, for a File that cannot be read, for a File or Embedded
\* content that is not valid TOML and for the empty string it returns
\* StyleMatch::default(): the margins and the twelve styles, every field.
C18_DegradesToDefaults ==
    Called("load_config_from_source") =>
        /\ DOMAIN result[1] = DOMAIN StyleMatch_default
        /\ ContentOf(call[1].source, disk) \in {None, Some("")} \cup {Some(t) : t \in NotToml}
               => result[1] = StyleMatch_default

C18_Witness ==
    /\ Called("load_config_from_source")
    /\ call[1].source = ConfigSource_File("config.toml")
    /\ "config.toml" \in DOMAIN disk
    /\ disk["config.toml"].content \in NotToml
    /\ result[1] = StyleMatch_default
    /\ result[1].margins = Margins(80, 80, 80, 80)
    /\ result[1].code.font_family = Some("Roboto")

\* The eleven fields of a style and the key of each.
KeyOf ==
    [size |-> "size", before_spacing |-> "beforespacing", after_spacing |-> "afterspacing",
     text_color |-> "textcolor", background_color |-> "backgroundcolor",
     alignment |-> "alignment", font_family |-> "fontfamily", bold |-> "bold",
     italic |-> "italic", underline |-> "underline", strikethrough |-> "strikethrough"]

IsIntegerAt(v, k) == k \in DOMAIN v.table /\ v.table[k].t = "Integer"

\* The value v has the type the key k expects.
Typed(k, v) ==
    CASE k = "size" -> v.t = "Integer"
      [] k \in {"beforespacing", "afterspacing"} -> v.t = "Float"
      [] k \in {"textcolor", "backgroundcolor"} ->
           v.t = "Table" /\ IsIntegerAt(v, "r") /\ IsIntegerAt(v, "g") /\ IsIntegerAt(v, "b")
      [] k \in {"alignment", "fontfamily"} -> v.t = "String"
      [] OTHER -> v.t = "Boolean"

\* The field a typed value v of the key k is converted to.
Converted(k, v) ==
    CASE k = "size" -> v.integer % 256
      [] k \in {"beforespacing", "afterspacing"} -> v.float
      [] k \in {"textcolor", "backgroundcolor"} ->
           Some(<<v.table["r"].integer % 256, v.table["g"].integer % 256,
                  v.table["b"].integer % 256>>)
      [] k = "alignment" ->
           Some(CASE v.str = "center" -> "Center"
                  [] v.str = "right" -> "Right"
                  [] v.str = "justify" -> "Justify"
                  [] OTHER -> "Left")
      [] k = "fontfamily" -> Some(v.str)
      [] OTHER -> v.bool

\* The key k is present in the value parse_style was called on, with a
\* value of the expected type.
PresentTyped(value, k) ==
    /\ value # None
    /\ value[1].t = "Table"
    /\ k \in DOMAIN value[1].table
    /\ Typed(k, value[1].table[k])

\* C19: parse_style(value, default) changes only the fields whose key is
\* present in the table with a value of the expected type, to the value
\* converted; every other field (key absent, unknown key, value of another
\* type) is the field of default, for each of the eleven fields.
C19_OnlyTypedKeysChange ==
    Called("parse_style") =>
        /\ DOMAIN result[1] = DOMAIN KeyOf
        /\ \A f \in DOMAIN KeyOf :
              result[1][f] = IF PresentTyped(call[1].value, KeyOf[f])
                             THEN Converted(KeyOf[f], call[1].value[1].table[KeyOf[f]])
                             ELSE call[1].default[f]

C19_Witness ==
    /\ Called("parse_style")
    /\ call[1].value =
           Some(TomlTable([size |-> TomlString("invalid"), bold |-> TomlBoolean(TRUE)]))
    /\ call[1].default = StyleMatch_default.text
    /\ result[1] = [StyleMatch_default.text EXCEPT !.bold = TRUE]

\* The parent directory of the path is not empty and is not on the disk d.
ParentMissing(d, path) ==
    Len(path) > 1 /\ SubSeq(path, 1, Len(path) - 1) \notin DOMAIN d

\* A file can be written at the path on the disk d.
CanWrite(d, path) ==
    /\ Len(path) > 0
    /\ SubSeq(path, 1, Len(path) - 1) \in DOMAIN d
    /\ d[SubSeq(path, 1, Len(path) - 1)] = Dir(TRUE)
    /\ path \in DOMAIN d => d[path].kind = "file"

Returned(error) == result # None /\ ~result[1].ok /\ result[1].err = error

\* C20: parse_into_file validates the output location first: when the
\* parent directory of path is not empty and does not exist it returns
\* MdpError::IoError, at once: no markdown lexed, no style loaded, no font
\* loaded, no document rendered, the disk as it was.  Any other call does
\* not return IoError, and once it has reached the writing of the PDF it
\* returns Ok only with the PDF in the file, and PdfError otherwise.
C20_ValidatesOutputFirst ==
    Called("parse_into_file") =>
        /\ ParentMissing(call[1].before, call[1].path) =>
              /\ pc = "return" /\ Returned("IoError")
              /\ input = <<>> /\ style = None /\ heap = <<>> /\ doc = None
              /\ disk = call[1].before
        /\ ~ParentMissing(call[1].before, call[1].path) => ~Returned("IoError")
        /\ pc = "return" /\ doc # None =>
              IF CanWrite(call[1].before, call[1].path) /\ result[1].ok
              THEN /\ DOMAIN disk = DOMAIN call[1].before \cup {call[1].path}
                   /\ disk[call[1].path] = File(PdfOf(doc[1]))
                   /\ \A p \in DOMAIN call[1].before \ {call[1].path} :
                         disk[p] = call[1].before[p]
              ELSE Returned("PdfError")
        /\ Returned("PdfError") => pc = "return" /\ doc # None

C20_Witness ==
    /\ Called("parse_into_file")
    /\ call[1].path = <<"missing", "out.pdf">>
    /\ call[1].markdown = "# Test"
    /\ Returned("IoError")
    /\ pc = "return"

\* The markdown texts with an image bracket that is not closed.
Unclosed == {"![Invalid"}

ConversionCalled == Called("parse_into_file") \/ Called("parse_into_bytes")

\* Nothing of the conversion has happened but the call: no token, no style,
\* no font, no document, the disk as it was.
NothingDone ==
    input = <<>> /\ style = None /\ heap = <<>> /\ doc = None /\ disk = call[1].before

\* C21 as claimed: for markdown with an unclosed image bracket both
\* parse_into_file and parse_into_bytes return MdpError::ParseError.
C21_AlwaysParseError ==
    ConversionCalled /\ call[1].markdown \in Unclosed /\ pc = "return"
        => Returned("ParseError")

\* C21 as amended: a lexer error aborts the whole conversion.  For
\* markdown with an unclosed image bracket the call stops at the lexer and
\* returns MdpError::ParseError with the message UnexpectedEndOfInput, no
\* token rendered, no file created; parse_into_file called with a missing
\* output directory returns MdpError::IoError before the lexer runs.
C21_LexerErrorAborts ==
    ConversionCalled /\ call[1].markdown \in Unclosed =>
        /\ pc \in {"lexer.parse", "return"}
        /\ NothingDone
        /\ pc = "return" =>
              IF Called("parse_into_file") /\ ParentMissing(call[1].before, call[1].path)
              THEN Returned("IoError")
              ELSE Returned("ParseError") /\ result[1].message = "UnexpectedEndOfInput"

C21_Witness ==
    /\ Called("parse_into_bytes")
    /\ call[1].markdown = "![Invalid"
    /\ pc = "return"
    /\ Returned("ParseError")
    /\ doc = None

\* C22: for every markdown that lexes and every config source,
\* parse_into_bytes returns Ok(bytes), the bytes not empty and starting
\* with %PDF-.
C22_BytesStartWithPdf ==
    Called("parse_into_bytes") /\ call[1].markdown \notin Unclosed /\ pc = "return" =>
        /\ result[1].ok
        /\ Len(result[1].v) > 5
        /\ SubSeq(result[1].v, 1, 5) = <<"%", "P", "D", "F", "-">>

\* The step is the loop at a Newline token.
NewlineStep == At("Newline") /\ pos' = pos + 1

\* C23: flushing an empty buffer pushes nothing.  A Newline reached with
\* an empty buffer adds no element and leaves the buffer empty, so a
\* Newline right after a Newline changes neither the document nor the
\* buffer (a run of Newlines leaves the state a single Newline leaves), and
\* a token sequence that is empty or only Newlines ends with no element
\* pushed.
C23_EmptyFlushPushesNothing ==
    /\ [][NewlineStep /\ current_tokens = <<>> =>
              doc' = doc /\ current_tokens' = <<>>]_vars
    /\ [][NewlineStep /\ pos > 1 /\ input[pos - 1].type = "Newline" =>
              current_tokens = <<>> /\ doc' = doc /\ current_tokens' = <<>>]_vars
    /\ [](pc = "done" /\ (\A i \in 1..Len(input) : input[i].type = "Newline") =>
              doc = <<>>)

C23_Witness ==
    /\ pc = "done"
    /\ Len(input) = 3
    /\ \A i \in 1..2 : input[i].type = "Newline"
    /\ input[3].type = "Text"
    /\ Len(doc) = 3

\* Where the lines of a content start: at its first character and after
\* each newline.
LineStarts(content) ==
    {i \in 1..(Len(content) + 1) : i = 1 \/ content[i - 1] = "\n"}

\* The k-th line of a content: from the k-th start up to the next newline.
LineNo(content, k) ==
    LET b == CHOOSE i \in LineStarts(content) :
                 Cardinality({j \in LineStarts(content) : j < i}) = k - 1
        e == CHOOSE i \in b..(Len(content) + 1) :
                 /\ i = Len(content) + 1 \/ content[i] = "\n"
                 /\ \A j \in b..(i - 1) : content[j] # "\n"
    IN  SubSeq(content, b, e - 1)

NewlinesIn(content) == Cardinality({i \in 1..Len(content) : content[i] = "\n"})

\* The elements a step has added to the document.
Added == SubSeq(doc', Len(doc) + 1, Len(doc'))

\* C24: for a top-level Code token whose content has a newline, the
\* renderer pushes, after the flush of the buffer, Break(code.before_spacing),
\* one Paragraph per line of the content split on the newline (the number
\* of newlines + 1, blank lines included, in order), each of one run of 4
\* spaces followed by the line, then Break(code.after_spacing), whatever
\* the language is.
C24_OneParagraphPerLine ==
    [][pc = "loop" /\ pos <= Len(input) /\ input[pos].type = "Code"
       /\ NewlinesIn(input[pos].text) > 0 /\ pos' = pos + 1 =>
          LET content == input[pos].text
              n == NewlinesIn(content) + 1
              flushed == IF current_tokens = <<>> THEN 0 ELSE 3
          IN  /\ Len(Added) = flushed + n + 2
              /\ Added[flushed + 1].el = "Break"
              /\ Added[flushed + 1].size = style.code.before_spacing
              /\ \A k \in 1..n :
                    /\ Added[flushed + 1 + k].el = "Paragraph"
                    /\ Len(Added[flushed + 1 + k].runs) = 1
                    /\ Added[flushed + 1 + k].runs[1].text =
                           <<" ", " ", " ", " ">> \o LineNo(content, k)
              /\ Added[flushed + n + 2].el = "Break"
              /\ Added[flushed + n + 2].size = style.code.after_spacing
              /\ current_tokens' = <<>>]_vars

C24_Witness ==
    /\ pc = "done"
    /\ Len(input) = 1
    /\ input[1].type = "Code"
    /\ input[1].lang = <<"r", "s">>
    /\ input[1].text = <<"a", "\n", "\n">>
    /\ Len(doc) = 5
    /\ doc[3].runs[1].text = <<" ", " ", " ", " ">>
    /\ doc[4].runs[1].text = <<" ", " ", " ", " ">>

\* The font file the returned family was read from.
ReturnedFont == heap[result[1].v.regular.data].id

\* The font files of the system directories that can be used: not a
\* collection, and they parse.
Usable == {i \in 1..Len(files) :
              /\ files[i].dir # CustomDir
              /\ ~is_ttc(files[i].name)
              /\ files[i].bytes.valid}

FamilyIs(i, name) == to_lowercase(files[i].family) = to_lowercase(name)

StemIs(i, name) == to_lowercase(file_stem(files[i].name)) = to_lowercase(name)

FamilyHas(i, name) == str_contains(to_lowercase(files[i].family), to_lowercase(name))

\* C25: load_system_font_family_simple tries the requested name before its
\* aliases: when a usable font whose family or file stem is the requested
\* name is on the system, the font returned matches the requested name, not
\* an alias; and the face the database search settles on is one whose
\* family is the name if there is one, else one whose file stem is the name
\* if there is one, else one whose family contains the name.
C25_NameBeforeAliases ==
    Called("load_system_font_family_simple") =>
        /\ (\E i \in Usable : FamilyIs(i, call[1].name) \/ StemIs(i, call[1].name)) =>
              /\ result[1].ok
              /\ \E i \in Usable :
                    /\ files[i].bytes.id = ReturnedFont
                    /\ FamilyIs(i, call[1].name) \/ StemIs(i, call[1].name)
                       \/ FamilyHas(i, call[1].name)
        /\ \A i \in 1..Len(files) :
              best_path(to_lowercase(call[1].name)) = Some(files[i]) =>
                 /\ (\E j \in 1..Len(files) : files[j].dir # CustomDir
                         /\ ~is_ttc(files[j].name) /\ FamilyIs(j, call[1].name))
                       => FamilyIs(i, call[1].name)
                 /\ (\E j \in 1..Len(files) : files[j].dir # CustomDir
                         /\ ~is_ttc(files[j].name) /\ StemIs(j, call[1].name))
                       => FamilyIs(i, call[1].name) \/ StemIs(i, call[1].name)

\* The fonts load_font_with_fallbacks was called with, the primary first,
\* each as its loader returns it.
TriedFont(i) ==
    load_custom_or_system((<<call[1].primary_name>> \o call[1].fallback_names)[i],
                          call[1].custom_paths, <<>>)

LoadedFonts == {i \in 1..(1 + Len(call[1].fallback_names)) : TriedFont(i).result.ok}

CoverageOf(i) == covered(TriedFont(i).heap, TriedFont(i).result.v.regular, call[1].text[1])

\* The font with the best coverage: the first whose coverage is complete,
\* otherwise the earliest of those with the highest coverage.
BestFont ==
    IF \E i \in LoadedFonts : CoverageOf(i) = Len(call[1].text[1])
    THEN CHOOSE i \in LoadedFonts :
             /\ CoverageOf(i) = Len(call[1].text[1])
             /\ \A j \in LoadedFonts : j < i => CoverageOf(j) < Len(call[1].text[1])
    ELSE CHOOSE i \in LoadedFonts :
             /\ \A j \in LoadedFonts : CoverageOf(j) <= CoverageOf(i)
             /\ \A j \in LoadedFonts : j < i => CoverageOf(j) < CoverageOf(i)

\* C26: load_font_with_fallbacks given a text returns the font with the
\* best coverage, and Err only when neither the primary nor any fallback
\* font could be loaded.
C26_BestCoverage ==
    Called("load_font_with_fallbacks") /\ call[1].text # None =>
        IF LoadedFonts = {}
        THEN ~result[1].ok
        ELSE result[1] = TriedFont(BestFont).result /\ heap = TriedFont(BestFont).heap

\* The integer n fits a u8.
InU8(n) == n \in 0..255

\* The colour key k of the value v is a table whose r, g and b are integers.
IsColourAt(v, k) == k \in DOMAIN v.table /\ Typed(k, v.table[k])

\* C27: parse_style and parse_color never store an integer wrapped: an
\* integer size or colour component in 0..255 is stored unchanged, and for
\* an integer outside 0..255 the field keeps its default.
C27_NeverStoredWrapped ==
    Called("parse_style") /\ call[1].value # None /\ call[1].value[1].t = "Table" =>
        LET v == call[1].value[1]
        IN  /\ IsIntegerAt(v, "size") =>
                  result[1].size = IF InU8(v.table["size"].integer)
                                   THEN v.table["size"].integer
                                   ELSE call[1].default.size
            /\ \A f \in {"text_color", "background_color"} :
                  IsColourAt(v, KeyOf[f]) =>
                     LET c == v.table[KeyOf[f]].table
                     IN  result[1][f] =
                            IF \A x \in {"r", "g", "b"} : InU8(c[x].integer)
                            THEN Some(<<c["r"].integer, c["g"].integer, c["b"].integer>>)
                            ELSE call[1].default[f]

\* The alignment each of the four names stands for.
AlignmentNamed ==
    [left |-> "Left", center |-> "Center", right |-> "Right", justify |-> "Justify"]

\* The value of the key alignment in the value parse_style was called on.
AlignmentValue ==
    IF call[1].value # None /\ call[1].value[1].t = "Table"
       /\ "alignment" \in DOMAIN call[1].value[1].table
    THEN Some(call[1].value[1].table["alignment"])
    ELSE None

\* What parse_alignment is to return on AlignmentValue.
AlignmentExpected ==
    IF AlignmentValue = None \/ AlignmentValue[1].t # "String"
    THEN None
    ELSE IF AlignmentValue[1].str \in DOMAIN AlignmentNamed
         THEN Some(AlignmentNamed[AlignmentValue[1].str])
         ELSE Some("Left")

\* C28: parse_alignment maps "left", "center", "right" and "justify" to
\* their alignment, every other string (the empty one too) to Some(Left),
\* and a missing or non-string value to None; parse_style overwrites the
\* alignment of the default exactly when parse_alignment returns Some.
C28_AlignmentMapped ==
    Called("parse_style") =>
        /\ parse_alignment(AlignmentValue) = AlignmentExpected
        /\ result[1].alignment = IF AlignmentExpected # None
                                 THEN AlignmentExpected
                                 ELSE call[1].default.alignment

C28_Witness ==
    /\ Called("parse_style")
    /\ call[1].value = Some(TomlTable([alignment |-> TomlString("")]))
    /\ call[1].default = StyleMatch_default.heading_1
    /\ call[1].default.alignment = Some("Center")
    /\ result[1].alignment = Some("Left")

\* The faces of the family apply_subsetting_if_enabled was called on that
\* are on another buffer than the regular face: loaded from another file.
VariantFaces ==
    {face \in {"bold", "italic", "bold_italic"} :
        call[1].family[face].data # call[1].family.regular.data}

\* C29: when apply_subsetting_if_enabled subsets a family one of whose
\* bold, italic and bold-italic faces was loaded from another file than
\* the regular face, that face of the result is still of its own file and
\* is not the subset of the regular face.
C29_VariantsKeptDistinct ==
    Called("apply_subsetting_if_enabled") /\ ~Untouched(call[1]) =>
        \A face \in VariantFaces :
            /\ result[1].v[face] # result[1].v.regular
            /\ heap[result[1].v[face].data].id =
                   call[1].before[call[1].family[face].data].id

\* run is at its end, or in parse_into_file: its frame.
RunFrame == IF call[1].fn = "run" THEN call[1] ELSE call[1].caller

\* run called parse_into_file.
Generated == \E i \in 1..Len(RunFrame.calls) : RunFrame.calls[i] = "parse_into_file"

\* run read the input and resolved the output path.
InputRead == RunFrame.markdown # None /\ RunFrame.output_path # None

====
